---- MODULE Spec2Model ----
(***************************************************************************)
(* The concurrent ordered fetcher of pkg/storage/ingest (fetcher.go):      *)
(* one dispatcher goroutine (concurrentFetchers.start), a pool of fetch    *)
(* workers (concurrentFetchers.run), the consumer calling PollFetches and  *)
(* Stop, and a broker holding an offset-addressed log.                     *)
(*                                                                         *)
(* Channel operations follow the Go runtime: a rendezvous on an unbuffered *)
(* channel needs one side parked; a goroutine parks in a select only when  *)
(* none of its cases is ready, and closing a channel commits every select  *)
(* parked on it.  A worker sends a result from a select that also listens  *)
(* on r.done and ctx.Done(), and the dispatcher receives it from a select  *)
(* that listens on both as well, so a result changes hands only while      *)
(* r.done is open and ctx is live.  Workers receive wants with a plain     *)
(* `range wants` and PollFetches does not listen on r.done, so the         *)
(* dispatcher may still pick those cases after r.done was closed.          *)
(***************************************************************************)
EXTENDS Integers, Sequences, FiniteSets, TLC

(* ---------------------------- bounds and inputs ------------------------ *)

\* number of fetch workers (the concurrency argument of start)
Concurrency == 3

\* the configured maxBufferedBytesLimit
MaxBufferedBytesLimit == 3300000

\* the offset the fetcher is started at
StartOffset == 0

\* size in bytes of every record value the broker holds
RecordBytes == 10000

\* the most records one fetch response carries
MaxRespRecords == 2

\* the offsets of the records of the partition, a sparse (compacted) log
Log == <<0, 60, 110, 220>>

\* the offset retention moves the partition start to
RetentionPoint == 170

\* a high watermark reported by a lagging replica
StaleHWM == 60

\* the number of Update calls examined
MaxUpdates == 1

\* wants are dispatched for offsets up to this one (once ctx is cancelled the
\* dispatcher can otherwise hand out wants without end)
MaxWantOffset == 110

\* TLC's integers are 32 bits wide.  Where the overflow of an int64 matters
\* the arithmetic of fetchWant is examined at a reduced width: int32 has
\* NarrowBits bits, int64 twice as many
NarrowBits == 6

\* the floor of MaxBytes (1_000_000) at the reduced width
NarrowMinFetchBytes == 4

(* ---------------------------- program constants ------------------------ *)

MaxInt32 == 2147483647

initialBytesPerRecord == 10000

minFetchBytes == 1000000

NoChan == -1

Workers == 1..Concurrency

Max(a, b) == IF a >= b THEN a ELSE b

Min(a, b) == IF a <= b THEN a ELSE b

\* Go's integer conversion and division truncate toward zero
TruncDiv(a, b) == IF a >= 0 THEN a \div b ELSE -((-a) \div b)

Last(s) == s[Len(s)]

\* the log end offset, the broker's true high watermark
LogEndOffset == Last(Log) + 1

(* ------------------------------- fetchWant ----------------------------- *)

\* fetchWantFrom: the want's result channel is identified by the offset the
\* want was created for
fetchWantFrom(offset, targetMaxBytes, estimatedBytesPerRecord) ==
    LET e == Max(estimatedBytesPerRecord, 1)
        estimatedNumberOfRecords == Max(1, targetMaxBytes \div e)
    IN  [startOffset             |-> offset,
         endOffset               |-> offset + estimatedNumberOfRecords,
         targetMaxBytes          |-> targetMaxBytes,
         estimatedBytesPerRecord |-> e,
         result                  |-> offset]

\* mutant: the next want starts one offset after the end of this one
WantNextGap(w) ==
    [fetchWantFrom(w.endOffset + 1, w.targetMaxBytes, w.estimatedBytesPerRecord)
        EXCEPT !.estimatedBytesPerRecord = w.estimatedBytesPerRecord]

WantNext(w) ==
    [fetchWantFrom(w.endOffset, w.targetMaxBytes, w.estimatedBytesPerRecord)
        EXCEPT !.estimatedBytesPerRecord = w.estimatedBytesPerRecord]

\* int64(1.05 * float64(est * (end - start)))
expectedBytes(w) ==
    TruncDiv(105 * (w.estimatedBytesPerRecord * (w.endOffset - w.startOffset)), 100)

MaxBytes(w) ==
    LET fetchBytes == expectedBytes(w)
    IN  IF fetchBytes > MaxInt32 \/ fetchBytes < 0
        THEN MaxInt32
        ELSE Max(minFetchBytes, fetchBytes)

\* mutant: the weights are exchanged
UpdateBytesPerRecordSwapped(w, lastFetchBytes, lastFetchNumberOfRecords) ==
    [w EXCEPT !.estimatedBytesPerRecord =
        TruncDiv(2 * w.estimatedBytesPerRecord * lastFetchNumberOfRecords
                   + 8 * lastFetchBytes,
                 10 * lastFetchNumberOfRecords)]

\* int(0.8*est + 0.2*(bytes/records)); called with records >= 1 only
UpdateBytesPerRecord(w, lastFetchBytes, lastFetchNumberOfRecords) ==
    [w EXCEPT !.estimatedBytesPerRecord =
        TruncDiv(8 * w.estimatedBytesPerRecord * lastFetchNumberOfRecords
                   + 2 * lastFetchBytes,
                 10 * lastFetchNumberOfRecords)]

NoWant == [startOffset |-> 0, endOffset |-> 0, targetMaxBytes |-> 0,
           estimatedBytesPerRecord |-> 0, result |-> NoChan]

(* ------------------ fetchWant arithmetic, reduced width ---------------- *)

NarrowMaxInt32 == 2^(NarrowBits - 1) - 1

NarrowMaxInt64 == 2^(2 * NarrowBits - 1) - 1

NarrowMinInt64 == -NarrowMaxInt64 - 1

\* the builds: a float64 outside the range of int64 converts to the smallest
\* int64 on amd64 and saturates on arm64
Archs == {"amd64", "arm64"}

\* int64 arithmetic wraps around
WrapInt64(x) ==
    ((x - NarrowMinInt64) % (2 * (NarrowMaxInt64 + 1))) + NarrowMinInt64

\* int64(f) for a float64 f
Int64OfFloat(x, arch) ==
    IF x >= NarrowMinInt64 /\ x <= NarrowMaxInt64 THEN x
    ELSE IF arch = "amd64" \/ x < 0 THEN NarrowMinInt64
    ELSE NarrowMaxInt64

\* expectedBytes with int64 overflow
expectedBytesNarrow(w, arch) ==
    Int64OfFloat(
        TruncDiv(21 * WrapInt64(w.estimatedBytesPerRecord
                                  * WrapInt64(w.endOffset - w.startOffset)), 20),
        arch)

\* mutant: a negative size is not caught
MaxBytesNarrowNoSignCheck(w, arch) ==
    LET fetchBytes == expectedBytesNarrow(w, arch)
    IN  IF fetchBytes > NarrowMaxInt32
        THEN NarrowMaxInt32
        ELSE Max(NarrowMinFetchBytes, fetchBytes)

\* MaxBytes with int64 overflow
MaxBytesNarrow(w, arch) ==
    LET fetchBytes == expectedBytesNarrow(w, arch)
    IN  IF fetchBytes > NarrowMaxInt32 \/ fetchBytes < 0
        THEN NarrowMaxInt32
        ELSE Max(NarrowMinFetchBytes, fetchBytes)

(* ------------------------------ fetchResult ---------------------------- *)

\* Records are offsets; Err is "none" or an error class; ctx is the span of
\* the want the result was fetched for, named by the want's result channel
EmptyResult == [Records |-> <<>>, fetchedBytes |-> 0, Err |-> "none",
                HighWatermark |-> 0, LogStartOffset |-> 0, ctx |-> NoChan]

newEmptyFetchResult(ctx, err) == [EmptyResult EXCEPT !.Err = err, !.ctx = ctx]

\* mutant: the newer records come first and the older watermark is kept
MergeNewerFirst(fr, older) ==
    [fr EXCEPT !.Records = fr.Records \o older.Records,
               !.fetchedBytes = fr.fetchedBytes + older.fetchedBytes,
               !.HighWatermark = older.HighWatermark]

\* mutant: the older records are forgotten
MergeDropOlder(fr, older) ==
    [fr EXCEPT !.fetchedBytes = fr.fetchedBytes + older.fetchedBytes]

\* fr.Merge(older): older records first, bytes summed, the rest from fr
Merge(fr, older) ==
    [fr EXCEPT !.Records = older.Records \o fr.Records,
               !.fetchedBytes = fr.fetchedBytes + older.fetchedBytes]


\* the fields of a result that a later Merge reads from the older result
\* (Records and fetchedBytes); previousResult is kept in this form
AsPrevious(fr) == [fr EXCEPT !.Err = "none", !.HighWatermark = 0,
                             !.LogStartOffset = 0, !.ctx = NoChan]

\* a result as it travels to the consumer: its HighWatermark is read by run
\* only (casHWM) and its LogStartOffset by nobody, so they are not carried
\* along
Sent(fr) == [fr EXCEPT !.HighWatermark = 0, !.LogStartOffset = 0]

\* mutant: the record at the given offset counts as not yet returned
recordIndexAfterOffsetInclusive(records, offset) ==
    IF \E i \in 1..Len(records) : records[i] >= offset
    THEN CHOOSE i \in 1..Len(records) :
            /\ records[i] >= offset
            /\ \A j \in 1..(i - 1) : records[j] < offset
    ELSE Len(records) + 1

\* mutant: nothing is recognised as already returned
recordIndexAfterOffsetFirst(records, offset) == 1

recordIndexAfterOffset(records, offset) ==
    IF \E i \in 1..Len(records) : records[i] > offset
    THEN CHOOSE i \in 1..Len(records) :
            /\ records[i] > offset
            /\ \A j \in 1..(i - 1) : records[j] <= offset
    ELSE Len(records) + 1

(* -------------------------------- state -------------------------------- *)

VARIABLES
    done,                    \* r.done is closed
    ctxCancelled,            \* the fetcher's ctx is cancelled
    dispRunning,             \* start has not returned (wants is open)
    nextFetch,               \* start: nextFetch
    inflight,                \* start: inflight.wants, front first
    bufferedResult,          \* start: bufferedResult
    readyBufferedResults,    \* start: readyBufferedResults is non-nil
    dispatchNextWant,        \* start: dispatchNextWant is non-nil, as the
                             \* current iteration of the loop computed it
    worker,                  \* per worker: position in run, w, previousResult, f
    closed,                  \* the result channels that are closed
    lastClosed,              \* history: the want whose channel was closed
                             \* last, as its worker held it then
    highWatermark,           \* start: highWatermark
    bufferedFetchedRecords,  \* r.bufferedFetchedRecords
    bufferedFetchedBytes,    \* r.bufferedFetchedBytes, also inflight.bytes
    lastReturnedRecord,      \* r.lastReturnedRecord
    pollPc,                  \* the consumer: "idle", "polling", "got"
    polled,                  \* the result PollFetches received
    stopState,               \* Stop: "running", "closing", "stopped"
    logStart,                \* the broker's partition start offset
    returned,                \* history: offsets returned by PollFetches, in order
    pollReturn,              \* history: how the last PollFetches call returned
    dispatched,              \* history: result channels of the wants dispatched
    lastDispatched,          \* history: the want dispatched last, as dispatched
    cas,                     \* per worker: position inside casHWM (SpecHWM)
    fnIn,                    \* SpecFn: the function called and its arguments
    fnOut,                   \* SpecFn: what the call returned
    rEstimatedBytesPerRecord, \* r.estimatedBytesPerRecord
    generation,              \* how often Update has restarted the fetcher
    unconsumed,              \* history: records and bytes the fetch attempts
                             \* returned, less those of the results handed
                             \* to PollFetches
    runLoop                  \* SpecRun: one worker's run with its errBackoff

vars == <<done, ctxCancelled, dispRunning, nextFetch, inflight, bufferedResult,
          readyBufferedResults, dispatchNextWant, worker, closed, lastClosed, highWatermark,
          bufferedFetchedRecords, bufferedFetchedBytes, lastReturnedRecord,
          pollPc, polled, stopState, logStart, returned, pollReturn,
          dispatched, lastDispatched, cas, fnIn, fnOut, unconsumed,
          rEstimatedBytesPerRecord, generation, runLoop>>

dispVars == <<nextFetch, inflight, bufferedResult, readyBufferedResults,
              dispatchNextWant>>

pollVars == <<lastReturnedRecord, pollPc, polled, returned, pollReturn>>

histVars == <<dispatched, lastDispatched>>

fnVars == <<fnIn, fnOut>>

programVars == <<done, ctxCancelled, dispRunning, dispVars, worker, closed, lastClosed,
                 highWatermark, bufferedFetchedRecords, bufferedFetchedBytes,
                 pollVars, stopState, logStart, histVars, cas, unconsumed,
                 rEstimatedBytesPerRecord, generation, runLoop>>

\* attemptRecords and estimateUpdated are history: the number of records the
\* attempt the worker has just made returned, and whether that attempt
\* called w.UpdateBytesPerRecord
IdleWorker == [pc |-> "idle", w |-> NoWant,
               previousResult |-> EmptyResult, f |-> EmptyResult,
               attemptRecords |-> 0, estimateUpdated |-> FALSE]

\* maxDone is history: the largest value a finished casHWM call of the worker
\* reported
IdleCas == [pc |-> "idle", hwm |-> 0, newHWM |-> 0, maxDone |-> 0]

\* start: targetBytesPerFetcher
targetBytesPerFetcher == MaxBufferedBytesLimit \div Concurrency

\* errBackoff: MinBackoff and MaxBackoff, in milliseconds
MinBackoff == 250

MaxBackoff == 2000

\* what is remembered of the attempt a worker made last: how fetchSingle
\* ended, the error and the number of records of its result, whether
\* handleKafkaFetchErr was called, with which want and cached partition start,
\* the want it returned and the calls it made, the delay errBackoff held
\* before the attempt and whether errBackoff.Reset() was called
NoAttempt == [kind |-> "none", err |-> "none", records |-> 0,
              handled |-> FALSE, fwIn |-> NoWant,
              cached |-> [ok |-> FALSE, offset |-> 0], fwOut |-> NoWant,
              calls |-> <<>>, delayBefore |-> MinBackoff, reset |-> FALSE]

\* a worker at `for w := range wants` with a fresh errBackoff.  taken, last,
\* cancelled, sent and closedWant are history: the offset of the want taken
\* last, the last attempt, whether an attempt for the want ended by
\* cancellation, the results sent for the want and the want whose channel
\* was closed last
IdleRun == [pc |-> "range", w |-> NoWant, previousResult |-> EmptyResult,
            f |-> EmptyResult, nextDelay |-> MinBackoff, taken |-> -1,
            last |-> NoAttempt, cancelled |-> FALSE, sent |-> 0,
            closedWant |-> NoWant]

\* the fetcher as newConcurrentFetchers and the head of start leave it
InitFetcher ==
    /\ done = FALSE
    /\ ctxCancelled = FALSE
    /\ dispRunning = TRUE
    /\ nextFetch = fetchWantFrom(StartOffset, targetBytesPerFetcher, initialBytesPerRecord)
    /\ inflight = <<>>
    /\ bufferedResult = EmptyResult
    /\ readyBufferedResults = FALSE
    /\ dispatchNextWant = TRUE
    /\ worker = [i \in Workers |-> IdleWorker]
    /\ closed = {}
    /\ lastClosed = NoWant
    /\ highWatermark = 0
    /\ bufferedFetchedRecords = 0
    /\ bufferedFetchedBytes = 0
    /\ lastReturnedRecord = StartOffset - 1
    /\ pollPc = "idle"
    /\ polled = EmptyResult
    /\ stopState = "running"
    /\ logStart = 0
    /\ returned = <<>>
    /\ pollReturn = [kind |-> "none", discarded |-> 0, n |-> 0]
    /\ dispatched = {}
    /\ lastDispatched = NoWant
    /\ cas = [i \in Workers |-> IdleCas]
    /\ unconsumed = [records |-> 0, bytes |-> 0]
    /\ rEstimatedBytesPerRecord = 0
    /\ generation = 0
    /\ runLoop = IdleRun

\* no function call under examination
NoCall == [op |-> "none", w |-> NoWant, arch |-> "amd64", bytes |-> 0, n |-> 0,
           fr |-> EmptyResult, older |-> EmptyResult, err |-> "none",
           cached |-> [ok |-> FALSE, offset |-> 0]]

NoReturn == [done |-> FALSE, expected |-> 0, maxBytes |-> 0, w |-> NoWant,
             fr |-> EmptyResult, calls |-> <<>>]

Init ==
    /\ InitFetcher
    /\ fnIn = NoCall
    /\ fnOut = NoReturn


(* -------------------------------- broker ------------------------------- *)

\* the records the broker still holds at or after offset s
Available(s) == SelectSeq(Log, LAMBDA o : o >= s /\ o >= logStart)

\* parseFetchResponse: what a fetch at fw.startOffset is answered with.  The
\* broker sizes the response in bytes, so it may end before or after
\* fw.endOffset; records below the requested offset are dropped by the client.
\* The response reports the high watermark of the replica that served it,
\* which is above every record it returned.  An offset below the partition
\* start or beyond the end of the log is answered OffsetOutOfRange, and so is
\* one beyond the end of a broker that is behind (836), whose log ends at
\* StaleHWM.
OffsetOutOfRangeResponse(fw) ==
    [Records |-> <<>>, fetchedBytes |-> 0, Err |-> "OffsetOutOfRange",
     HighWatermark |-> -1, LogStartOffset |-> -1, ctx |-> fw.result]

parseFetchResponse(fw) ==
    IF fw.startOffset < logStart \/ fw.startOffset > LogEndOffset
    THEN {OffsetOutOfRangeResponse(fw)}
    ELSE (IF fw.startOffset > StaleHWM THEN {OffsetOutOfRangeResponse(fw)}
          ELSE {})
         \cup
         {r \in {[Records |-> SubSeq(Available(fw.startOffset), 1, k),
                  fetchedBytes |-> k * RecordBytes,
                  Err |-> "none",
                  HighWatermark |-> h,
                  LogStartOffset |-> logStart,
                  ctx |-> fw.result] :
                    k \in 0..Min(MaxRespRecords, Len(Available(fw.startOffset))),
                    h \in {LogEndOffset}} :
             \A j \in 1..Len(r.Records) : r.Records[j] < r.HighWatermark}

\* the errors of a leader lookup or a request: one handleKafkaFetchErr names
\* and one it does not (its default case)
RequestErrors == {"i/o timeout", "unclassified"}

\* fetchSingle: a cancelled request gives an empty result without an error, a
\* failed leader lookup or request an empty result with the error
fetchSingle(fw) ==
    (IF ctxCancelled THEN {newEmptyFetchResult(fw.result, "none")} ELSE {})
        \cup {newEmptyFetchResult(fw.result, err) : err \in RequestErrors}
        \cup parseFetchResponse(fw)

\* partitionStartOffset.CachedOffset(): an error, or a start offset read at
\* some earlier time
CachedOffset ==
    {[ok |-> FALSE, offset |-> 0]}
        \cup {[ok |-> TRUE, offset |-> p] : p \in {0, logStart}}

\* handleKafkaFetchErr: the want it returns; only OffsetOutOfRange adjusts it
handleKafkaFetchErr(err, fw, cached) ==
    IF err = "OffsetOutOfRange" /\ cached.ok /\ fw.startOffset < cached.offset
    THEN IF cached.offset >= fw.endOffset
         THEN [fw EXCEPT !.startOffset = fw.endOffset]
         ELSE [fw EXCEPT !.startOffset = cached.offset]
    ELSE fw

\* the errors handleKafkaFetchErr backs off for without a metadata refresh
\* (839-855)
BackoffErrors ==
    {"TopicAuthorizationFailed", "UnknownTopicOrPartition",
     "UnsupportedCompressionType", "UnsupportedVersion", "KafkaStorageError",
     "UnknownTopicID", "OffsetMovedToTieredStorage"}

\* the errors of a stale leader, replica or epoch (856-883)
StaleLeaderErrors ==
    {"NotLeaderForPartition", "ReplicaNotAvailable", "UnknownLeaderEpoch",
     "FencedLeaderEpoch", "LeaderNotAvailable", "BrokerNotAvailable",
     "errUnknownPartitionLeader"}

\* the errors recognised by their text and retried at once (886-891)
ImmediateRetryErrors ==
    {"unknownBroker", "chosenBrokerDied", "use of closed network connection"}

\* every class of error handleKafkaFetchErr tells apart, and one it does not
KafkaFetchErrs ==
    {"OffsetOutOfRange", "ErrFirstReadEOF", "i/o timeout", "unclassified"}
        \cup BackoffErrors \cup StaleLeaderErrors \cup ImmediateRetryErrors

\* mutant: the backoff wait comes before the metadata refresh
handleKafkaFetchErrCallsWaitFirst(err) ==
    CASE err = "none" -> <<>>
      [] err = "OffsetOutOfRange" -> <<>>
      [] err \in BackoffErrors -> <<"Wait">>
      [] err \in StaleLeaderErrors -> <<"Wait", "ForceMetadataRefresh">>
      [] err = "ErrFirstReadEOF" -> <<"Wait">>
      [] err \in ImmediateRetryErrors -> <<>>
      [] err = "i/o timeout" -> <<"Wait", "ForceMetadataRefresh">>
      [] OTHER -> <<"Wait">>

\* mutant: an error recognised by its text is backed off for as well
handleKafkaFetchErrCallsAlwaysWait(err) ==
    CASE err = "none" -> <<>>
      [] err = "OffsetOutOfRange" -> <<>>
      [] err \in BackoffErrors -> <<"Wait">>
      [] err \in StaleLeaderErrors -> <<"ForceMetadataRefresh", "Wait">>
      [] err = "ErrFirstReadEOF" -> <<"Wait">>
      [] err \in ImmediateRetryErrors -> <<"Wait">>
      [] err = "i/o timeout" -> <<"ForceMetadataRefresh", "Wait">>
      [] OTHER -> <<"Wait">>

\* mutant: an unknown partition leader is only backed off for
handleKafkaFetchErrCallsNoRefresh(err) ==
    CASE err = "none" -> <<>>
      [] err = "OffsetOutOfRange" -> <<>>
      [] err \in BackoffErrors \cup {"errUnknownPartitionLeader"} -> <<"Wait">>
      [] err \in StaleLeaderErrors -> <<"ForceMetadataRefresh", "Wait">>
      [] err = "ErrFirstReadEOF" -> <<"Wait">>
      [] err \in ImmediateRetryErrors -> <<>>
      [] err = "i/o timeout" -> <<"ForceMetadataRefresh", "Wait">>
      [] OTHER -> <<"Wait">>

\* handleKafkaFetchErr: the calls it makes on refresher and longBackoff, in
\* their order, case by case of its switch.  An ErrFirstReadEOF waits whether
\* errors.Is recognises it (884-885) or the default case takes it (897-899).
handleKafkaFetchErrCalls(err) ==
    CASE err = "none" -> <<>>
      [] err = "OffsetOutOfRange" -> <<>>
      [] err \in BackoffErrors -> <<"Wait">>
      [] err \in StaleLeaderErrors -> <<"ForceMetadataRefresh", "Wait">>
      [] err = "ErrFirstReadEOF" -> <<"Wait">>
      [] err \in ImmediateRetryErrors -> <<>>
      [] err = "i/o timeout" -> <<"ForceMetadataRefresh", "Wait">>
      [] OTHER -> <<"Wait">>

\* mutant: the loop also runs for a smaller value
casLoopAnyChange(hwm, newHWM) == hwm # newHWM

\* casHWM: the condition of its loop
casLoop(hwm, newHWM) == hwm < newHWM

\* casHWM as one atomic step
casHWM(hwm, newHWM) == IF casLoop(hwm, newHWM) THEN newHWM ELSE hwm

(* ------------------------------ dispatcher ----------------------------- *)

\* mutant: the channel of the youngest want
peekNextResultBack(wants) ==
    IF Len(wants) = 0 THEN NoChan ELSE wants[Len(wants)].result

peekNextResult(wants) ==
    IF Len(wants) = 0 THEN NoChan ELSE Head(wants).result

\* mutant: the channel of the head want, a staged result or not
refillBufferedResultAlways == peekNextResult(inflight)

\* inflightFetchWants: the sum of the MaxBytes of the wants as they were
\* appended
RECURSIVE SumMaxBytes(_)
SumMaxBytes(wants) ==
    IF Len(wants) = 0 THEN 0
    ELSE MaxBytes(Head(wants)) + SumMaxBytes(Tail(wants))

\* start: refillBufferedResult, NoChan for nil
refillBufferedResult ==
    IF readyBufferedResults THEN NoChan ELSE peekNextResult(inflight)

wouldExceedInflightBytesLimit(bytes, nextF) ==
    bytes + MaxBytes(nextF) > MaxBufferedBytesLimit

\* mutant: either condition alone lets a want out
dispatchPermittedEither(wants, bytes, nextF, hwm) ==
    \/ Len(wants) = 0
    \/ ~wouldExceedInflightBytesLimit(bytes, nextF)
    \/ nextF.startOffset <= hwm

\* mutant: a want waits for the high watermark even when none is inflight
dispatchPermittedNoEmptyCase(wants, bytes, nextF, hwm) ==
    ~wouldExceedInflightBytesLimit(bytes, nextF) /\ nextF.startOffset <= hwm

\* mutant: the bytes of the inflight wants are not looked at
dispatchPermittedNoBytes(wants, bytes, nextF, hwm) ==
    \/ Len(wants) = 0
    \/ nextF.startOffset <= hwm

\* start: whether an iteration of the loop sets dispatchNextWant to wants
dispatchPermitted(wants, bytes, nextF, hwm) ==
    \/ Len(wants) = 0
    \/ (~wouldExceedInflightBytesLimit(bytes, nextF) /\ nextF.startOffset <= hwm)

\* the end of an iteration of run's attempt loop: the loop condition, and
\* close(w.result) when it fails
ContinueOrFinish(i, w, prev) ==
    IF ~ctxCancelled /\ w.endOffset > w.startOffset
    THEN /\ worker' = [worker EXCEPT ![i] =
                [IdleWorker EXCEPT !.pc = "fetch", !.w = w,
                                   !.previousResult = prev]]
         /\ closed' = closed
         /\ lastClosed' = lastClosed
    ELSE /\ worker' = [worker EXCEPT ![i] = IdleWorker]
         /\ closed' = closed \cup {w.result}
         /\ lastClosed' = w

\* mutant: return without closing the channel
ReturnWithoutClose(i) ==
    /\ worker' = [worker EXCEPT ![i] = [IdleWorker EXCEPT !.pc = "exited"]]
    /\ closed' = closed
    /\ lastClosed' = lastClosed

\* mutant: the channel is closed and the worker goes on with the want
CloseAndContinue(i) ==
    /\ worker' = [worker EXCEPT ![i].pc = "fetch"]
    /\ closed' = closed \cup {worker[i].w.result}
    /\ lastClosed' = worker[i].w

\* run: close(w.result); return
CloseAndReturn(i) ==
    /\ worker' = [worker EXCEPT ![i] = [IdleWorker EXCEPT !.pc = "exited"]]
    /\ closed' = closed \cup {worker[i].w.result}
    /\ lastClosed' = worker[i].w

\* start: case dispatchNextWant <- nextFetch, received by worker i.  The
\* workers are interchangeable, so of the idle ones the least takes the want.
\* Wants are dispatched for offsets up to maxOffset.
DispatchUpTo(i, maxOffset) ==
    /\ dispRunning
    /\ worker[i].pc = "idle"
    /\ \A j \in Workers : worker[j].pc = "idle" => i <= j
    /\ dispatchNextWant
    /\ nextFetch.startOffset <= maxOffset
    /\ inflight' = Append(inflight, nextFetch)
    /\ bufferedFetchedBytes' = bufferedFetchedBytes + MaxBytes(nextFetch)
    /\ nextFetch' = WantNext(nextFetch)
    /\ dispatchNextWant' = dispatchPermitted(inflight', bufferedFetchedBytes',
                                             nextFetch', highWatermark)
    /\ ContinueOrFinish(i, nextFetch, EmptyResult)
    /\ dispatched' = dispatched \cup {nextFetch.result}
    /\ lastDispatched' = nextFetch
    /\ UNCHANGED <<done, ctxCancelled, dispRunning, bufferedResult,
                   readyBufferedResults, highWatermark, bufferedFetchedRecords,
                   pollVars, stopState, logStart, cas, fnVars, runLoop, unconsumed, rEstimatedBytesPerRecord, generation>>

Dispatch(i) == DispatchUpTo(i, MaxWantOffset)

\* start: case result, moreLeft := <-refillBufferedResult with a result sent
\* by worker i (run: case w.result <- f)
Refill(i) ==
    /\ dispRunning /\ ~done /\ ~ctxCancelled
    /\ worker[i].pc \in {"select", "block"}
    /\ refillBufferedResult # NoChan
    /\ refillBufferedResult = worker[i].w.result
    /\ nextFetch' = UpdateBytesPerRecord(nextFetch, worker[i].f.fetchedBytes,
                                         Len(worker[i].f.Records))
    /\ bufferedResult' = worker[i].f
    /\ readyBufferedResults' = TRUE
    /\ dispatchNextWant' = dispatchPermitted(inflight, bufferedFetchedBytes,
                                             nextFetch', highWatermark)
    /\ ContinueOrFinish(i, worker[i].w, EmptyResult)
    /\ UNCHANGED <<done, ctxCancelled, dispRunning, inflight, highWatermark,
                   bufferedFetchedRecords, bufferedFetchedBytes, pollVars,
                   stopState, logStart, histVars, cas, fnVars, runLoop, unconsumed, rEstimatedBytesPerRecord, generation>>

\* start: the same case with moreLeft false: inflight.removeNextResult()
RefillClosed ==
    /\ dispRunning
    /\ refillBufferedResult # NoChan
    /\ refillBufferedResult \in closed
    /\ bufferedFetchedBytes' = bufferedFetchedBytes - MaxBytes(Head(inflight))
    /\ inflight' = Tail(inflight)
    /\ dispatchNextWant' = dispatchPermitted(inflight', bufferedFetchedBytes',
                                             nextFetch, highWatermark)
    /\ UNCHANGED <<done, ctxCancelled, dispRunning, nextFetch, bufferedResult,
                   readyBufferedResults, worker, closed, lastClosed, highWatermark,
                   bufferedFetchedRecords, pollVars, stopState, logStart,
                   histVars, cas, fnVars, runLoop, unconsumed, rEstimatedBytesPerRecord, generation>>

\* start: case readyBufferedResults <- bufferedResult, received by PollFetches
Deliver ==
    /\ dispRunning
    /\ readyBufferedResults
    /\ pollPc = "polling"
    /\ polled' = bufferedResult
    /\ unconsumed' = [records |-> unconsumed.records - Len(bufferedResult.Records),
                      bytes |-> unconsumed.bytes - bufferedResult.fetchedBytes]
    /\ pollPc' = "got"
    /\ readyBufferedResults' = FALSE
    /\ bufferedResult' = EmptyResult
    /\ dispatchNextWant' = dispatchPermitted(inflight, bufferedFetchedBytes,
                                             nextFetch, highWatermark)
    /\ UNCHANGED <<done, ctxCancelled, dispRunning, nextFetch, inflight, worker,
                   closed, lastClosed, highWatermark, bufferedFetchedRecords,
                   bufferedFetchedBytes, lastReturnedRecord, returned,
                   pollReturn, stopState, logStart, histVars, cas, fnVars, runLoop, rEstimatedBytesPerRecord, generation>>

\* start: case <-r.done / case <-ctx.Done(): return, closing wants
DispatcherReturn ==
    /\ dispRunning
    /\ done \/ ctxCancelled
    /\ dispRunning' = FALSE
    /\ UNCHANGED <<done, ctxCancelled, dispVars, worker, closed, lastClosed, highWatermark,
                   bufferedFetchedRecords, bufferedFetchedBytes, pollVars,
                   stopState, logStart, histVars, cas, fnVars, runLoop, unconsumed, rEstimatedBytesPerRecord, generation>>


(* -------------------------------- workers ------------------------------ *)

\* mutant: the want is not moved past the records fetched
NextStartOffsetKeeps(fw, f) == fw

\* run: w.startOffset = f.Records[len(f.Records)-1].Offset + 1
NextStartOffset(fw, f) == [fw EXCEPT !.startOffset = Last(f.Records) + 1]

\* mutant: an error without records ends the work on the want
AttemptFatalError(i) ==
    /\ worker[i].pc = "fetch"
    /\ \E resp \in fetchSingle(worker[i].w), cached \in CachedOffset :
        LET f  == Merge(resp, worker[i].previousResult)
            w1 == IF f.Err # "none"
                  THEN handleKafkaFetchErr(f.Err, worker[i].w, cached)
                  ELSE worker[i].w
            w2 == UpdateBytesPerRecord(NextStartOffset(w1, f),
                                       f.fetchedBytes, Len(f.Records))
        IN  /\ bufferedFetchedRecords' = bufferedFetchedRecords + Len(resp.Records)
            /\ unconsumed' = [records |-> unconsumed.records + Len(resp.Records),
                              bytes |-> unconsumed.bytes + resp.fetchedBytes]
            /\ highWatermark' = IF f.HighWatermark >= 0
                                THEN casHWM(highWatermark, f.HighWatermark)
                                ELSE highWatermark
            /\ IF Len(f.Records) = 0
               THEN IF done \/ f.Err # "none"
                    THEN CloseAndReturn(i)
                    ELSE ContinueOrFinish(i, w1, AsPrevious(f))
               ELSE /\ worker' = [worker EXCEPT ![i] =
                          [pc |-> "select", w |-> w2,
                           previousResult |-> AsPrevious(f), f |-> Sent(f),
                           attemptRecords |-> Len(resp.Records),
                           estimateUpdated |-> TRUE]]
                    /\ closed' = closed
                    /\ lastClosed' = lastClosed
    /\ UNCHANGED <<done, ctxCancelled, dispRunning, dispVars,
                   bufferedFetchedBytes, pollVars, stopState, logStart,
                   histVars, cas, fnVars, runLoop, rEstimatedBytesPerRecord, generation>>

\* mutant: a result that holds an error is offered to the dispatcher even
\* when it has no records
AttemptPublishesErrors(i) ==
    /\ worker[i].pc = "fetch"
    /\ \E resp \in fetchSingle(worker[i].w), cached \in CachedOffset :
        LET f  == Merge(resp, worker[i].previousResult)
            w1 == IF f.Err # "none"
                  THEN handleKafkaFetchErr(f.Err, worker[i].w, cached)
                  ELSE worker[i].w
            w2 == IF Len(f.Records) = 0 THEN w1
                  ELSE UpdateBytesPerRecord(NextStartOffset(w1, f),
                                            f.fetchedBytes, Len(f.Records))
        IN  /\ bufferedFetchedRecords' = bufferedFetchedRecords + Len(resp.Records)
            /\ unconsumed' = [records |-> unconsumed.records + Len(resp.Records),
                              bytes |-> unconsumed.bytes + resp.fetchedBytes]
            /\ highWatermark' = IF f.HighWatermark >= 0
                                THEN casHWM(highWatermark, f.HighWatermark)
                                ELSE highWatermark
            /\ IF Len(f.Records) = 0 /\ f.Err = "none"
               THEN IF done
                    THEN CloseAndReturn(i)
                    ELSE ContinueOrFinish(i, w1, AsPrevious(f))
               ELSE /\ worker' = [worker EXCEPT ![i] =
                          [pc |-> "select", w |-> w2,
                           previousResult |-> AsPrevious(f), f |-> Sent(f),
                           attemptRecords |-> Len(resp.Records),
                           estimateUpdated |-> TRUE]]
                    /\ closed' = closed
                    /\ lastClosed' = lastClosed
    /\ UNCHANGED <<done, ctxCancelled, dispRunning, dispVars,
                   bufferedFetchedBytes, pollVars, stopState, logStart,
                   histVars, cas, fnVars, runLoop, rEstimatedBytesPerRecord, generation>>

\* run: one attempt, from fetchSingle to the select that publishes the result
Attempt(i) ==
    /\ worker[i].pc = "fetch"
    /\ \E resp \in fetchSingle(worker[i].w), cached \in CachedOffset :
        LET f  == Merge(resp, worker[i].previousResult)
            w1 == IF f.Err # "none"
                  THEN handleKafkaFetchErr(f.Err, worker[i].w, cached)
                  ELSE worker[i].w
            w2 == UpdateBytesPerRecord(NextStartOffset(w1, f),
                                       f.fetchedBytes, Len(f.Records))
        IN  /\ bufferedFetchedRecords' = bufferedFetchedRecords + Len(resp.Records)
            /\ unconsumed' = [records |-> unconsumed.records + Len(resp.Records),
                              bytes |-> unconsumed.bytes + resp.fetchedBytes]
            /\ highWatermark' = IF f.HighWatermark >= 0
                                THEN casHWM(highWatermark, f.HighWatermark)
                                ELSE highWatermark
            /\ IF Len(f.Records) = 0
               THEN IF done
                    THEN CloseAndReturn(i)
                    ELSE ContinueOrFinish(i, w1, AsPrevious(f))
               ELSE /\ worker' = [worker EXCEPT ![i] =
                          [pc |-> "select", w |-> w2,
                           previousResult |-> AsPrevious(f), f |-> Sent(f),
                           attemptRecords |-> Len(resp.Records),
                           estimateUpdated |-> TRUE]]
                    /\ closed' = closed
                    /\ lastClosed' = lastClosed
    /\ UNCHANGED <<done, ctxCancelled, dispRunning, dispVars,
                   bufferedFetchedBytes, pollVars, stopState, logStart,
                   histVars, cas, fnVars, runLoop, rEstimatedBytesPerRecord, generation>>

\* mutant: the blocking select does not listen on r.done
WorkerSeesDoneFirstSelect(i) ==
    /\ worker[i].pc = "select"
    /\ done
    /\ CloseAndReturn(i)
    /\ UNCHANGED <<done, ctxCancelled, dispRunning, dispVars, highWatermark,
                   bufferedFetchedRecords, bufferedFetchedBytes, pollVars,
                   stopState, logStart, histVars, cas, fnVars, runLoop, unconsumed, rEstimatedBytesPerRecord, generation>>

\* run: case <-r.done of either select: close(w.result); return
WorkerSeesDone(i) ==
    /\ worker[i].pc \in {"select", "block"}
    /\ done
    /\ CloseAndReturn(i)
    /\ UNCHANGED <<done, ctxCancelled, dispRunning, dispVars, highWatermark,
                   bufferedFetchedRecords, bufferedFetchedBytes, pollVars,
                   stopState, logStart, histVars, cas, fnVars, runLoop, unconsumed, rEstimatedBytesPerRecord, generation>>

\* run: case <-ctx.Done() of either select: the result stays unsent and the
\* attempt loop ends because errBackoff.Ongoing() is false
WorkerSeesCtxDone(i) ==
    /\ worker[i].pc \in {"select", "block"}
    /\ ctxCancelled
    /\ ContinueOrFinish(i, worker[i].w, worker[i].previousResult)
    /\ UNCHANGED <<done, ctxCancelled, dispRunning, dispVars, highWatermark,
                   bufferedFetchedRecords, bufferedFetchedBytes, pollVars,
                   stopState, logStart, histVars, cas, fnVars, runLoop, unconsumed, rEstimatedBytesPerRecord, generation>>

\* mutant: the default case waits on the send whatever the want still needs
WorkerDefaultBlocks(i) ==
    /\ worker[i].pc = "select"
    /\ ~done /\ ~ctxCancelled
    /\ worker' = [worker EXCEPT ![i].pc = "block"]
    /\ closed' = closed
    /\ lastClosed' = lastClosed
    /\ UNCHANGED <<done, ctxCancelled, dispRunning, dispVars, highWatermark,
                   bufferedFetchedRecords, bufferedFetchedBytes, pollVars,
                   stopState, logStart, histVars, cas, fnVars, runLoop, unconsumed, rEstimatedBytesPerRecord, generation>>

\* run: the default case of the first select: block on the send when the want
\* is satisfied, otherwise keep the result and fetch again
WorkerDefault(i) ==
    /\ worker[i].pc = "select"
    /\ ~done /\ ~ctxCancelled
    /\ IF worker[i].w.startOffset >= worker[i].w.endOffset
       THEN /\ worker' = [worker EXCEPT ![i].pc = "block"]
            /\ closed' = closed
            /\ lastClosed' = lastClosed
       ELSE ContinueOrFinish(i, worker[i].w, worker[i].previousResult)
    /\ UNCHANGED <<done, ctxCancelled, dispRunning, dispVars, highWatermark,
                   bufferedFetchedRecords, bufferedFetchedBytes, pollVars,
                   stopState, logStart, histVars, cas, fnVars, runLoop, unconsumed, rEstimatedBytesPerRecord, generation>>

\* run: `for w := range wants` ends once start has closed wants (the idle
\* workers are interchangeable: the least leaves first)
WorkerExit(i) ==
    /\ worker[i].pc = "idle"
    /\ \A j \in Workers : worker[j].pc = "idle" => i <= j
    /\ ~dispRunning
    /\ worker' = [worker EXCEPT ![i].pc = "exited"]
    /\ UNCHANGED <<done, ctxCancelled, dispRunning, dispVars, closed, lastClosed,
                   highWatermark, bufferedFetchedRecords, bufferedFetchedBytes,
                   pollVars, stopState, logStart, histVars, cas, fnVars, runLoop, unconsumed, rEstimatedBytesPerRecord, generation>>

(* ------------------------------- consumer ------------------------------ *)

\* BytesPerRecord(): r.estimatedBytesPerRecord.Load(); no statement of the
\* fetcher stores to it
BytesPerRecord == rEstimatedBytesPerRecord

\* PollFetches is called and waits in its select
PollCall ==
    /\ pollPc = "idle"
    /\ stopState \notin {"closing", "updating"}
    /\ pollPc' = "polling"
    /\ pollReturn' = [kind |-> "none", discarded |-> 0, n |-> 0]
    /\ UNCHANGED <<done, ctxCancelled, dispRunning, dispVars, worker, closed, lastClosed,
                   highWatermark, bufferedFetchedRecords, bufferedFetchedBytes,
                   lastReturnedRecord, polled, returned, stopState,
                   logStart, histVars, cas, fnVars, runLoop, unconsumed, rEstimatedBytesPerRecord, generation>>

\* mutant: the cancelled call takes the staged result with it
PollCancelDropsStaged ==
    /\ pollPc = "polling"
    /\ pollPc' = "idle"
    /\ pollReturn' = [kind |-> "empty", discarded |-> 0, n |-> 0]
    /\ bufferedResult' = EmptyResult
    /\ readyBufferedResults' = FALSE
    /\ UNCHANGED <<done, ctxCancelled, dispRunning, nextFetch, inflight,
                   dispatchNextWant, worker,
                   closed, lastClosed, highWatermark, bufferedFetchedRecords,
                   bufferedFetchedBytes, lastReturnedRecord, polled, returned,
                   stopState, logStart, histVars, cas, fnVars, runLoop, unconsumed, rEstimatedBytesPerRecord, generation>>

\* PollFetches: case <-ctx.Done(): return kgo.Fetches{}, ctx
PollCancel ==
    /\ pollPc = "polling"
    /\ pollPc' = "idle"
    /\ pollReturn' = [kind |-> "empty", discarded |-> 0, n |-> 0]
    /\ UNCHANGED <<done, ctxCancelled, dispRunning, dispVars, worker, closed, lastClosed,
                   highWatermark, bufferedFetchedRecords, bufferedFetchedBytes,
                   lastReturnedRecord, polled, returned, stopState, logStart,
                   histVars, cas, fnVars, runLoop, unconsumed, rEstimatedBytesPerRecord, generation>>

\* mutant: the counter is decreased by the records returned to the caller
PollReturnSubReturned ==
    /\ pollPc = "got"
    /\ LET firstUnreturnedRecordIdx ==
               recordIndexAfterOffset(polled.Records, lastReturnedRecord)
           rest == SubSeq(polled.Records, firstUnreturnedRecordIdx,
                          Len(polled.Records))
       IN  /\ bufferedFetchedRecords' = bufferedFetchedRecords - Len(rest)
           /\ lastReturnedRecord' = IF Len(rest) > 0 THEN Last(rest)
                                    ELSE lastReturnedRecord
           /\ returned' = returned \o rest
           /\ pollReturn' = [kind |-> "fetches",
                             discarded |-> firstUnreturnedRecordIdx - 1,
                             n |-> Len(rest)]
    /\ pollPc' = "idle"
    /\ polled' = EmptyResult
    /\ UNCHANGED <<done, ctxCancelled, dispRunning, dispVars, worker, closed, lastClosed,
                   highWatermark, bufferedFetchedBytes, stopState, logStart,
                   histVars, cas, fnVars, runLoop, unconsumed, rEstimatedBytesPerRecord, generation>>

\* PollFetches: after case f := <-r.orderedFetches
PollReturn ==
    /\ pollPc = "got"
    /\ LET firstUnreturnedRecordIdx ==
               recordIndexAfterOffset(polled.Records, lastReturnedRecord)
           rest == SubSeq(polled.Records, firstUnreturnedRecordIdx,
                          Len(polled.Records))
       IN  /\ bufferedFetchedRecords' = bufferedFetchedRecords - Len(polled.Records)
           /\ lastReturnedRecord' = IF Len(rest) > 0 THEN Last(rest)
                                    ELSE lastReturnedRecord
           /\ returned' = returned \o rest
           /\ pollReturn' = [kind |-> "fetches",
                             discarded |-> firstUnreturnedRecordIdx - 1,
                             n |-> Len(rest)]
    /\ pollPc' = "idle"
    /\ polled' = EmptyResult
    /\ UNCHANGED <<done, ctxCancelled, dispRunning, dispVars, worker, closed, lastClosed,
                   highWatermark, bufferedFetchedBytes, stopState, logStart,
                   histVars, cas, fnVars, runLoop, unconsumed, rEstimatedBytesPerRecord, generation>>

\* Stop: close(r.done)
StopClose ==
    /\ stopState = "running"
    /\ pollPc = "idle"
    /\ ~done
    /\ done' = TRUE
    /\ stopState' = "closing"
    /\ UNCHANGED <<ctxCancelled, dispRunning, dispVars, worker, closed, lastClosed,
                   highWatermark, bufferedFetchedRecords, bufferedFetchedBytes,
                   pollVars, logStart, histVars, cas, fnVars, runLoop, unconsumed, rEstimatedBytesPerRecord, generation>>

\* mutant: Stop returns without resetting the counters
StopReturnNoReset ==
    /\ stopState = "closing"
    /\ ~dispRunning
    /\ \A i \in Workers : worker[i].pc = "exited"
    /\ stopState' = "stopped"
    /\ UNCHANGED <<done, ctxCancelled, dispRunning, dispVars, worker, closed, lastClosed,
                   highWatermark, bufferedFetchedRecords, bufferedFetchedBytes,
                   pollVars, logStart, histVars, cas, fnVars, runLoop, unconsumed, rEstimatedBytesPerRecord, generation>>

\* Stop: r.wg.Wait() returns, the counters are reset and Stop returns
StopReturn ==
    /\ stopState = "closing"
    /\ ~dispRunning
    /\ \A i \in Workers : worker[i].pc = "exited"
    /\ bufferedFetchedRecords' = 0
    /\ bufferedFetchedBytes' = 0
    /\ stopState' = "stopped"
    /\ UNCHANGED <<done, ctxCancelled, dispRunning, dispVars, worker, closed, lastClosed,
                   highWatermark, pollVars, logStart, histVars, cas, fnVars, runLoop, unconsumed, rEstimatedBytesPerRecord, generation>>

\* Update: r.Stop() up to close(r.done)
UpdateStop ==
    /\ stopState = "running"
    /\ pollPc = "idle"
    /\ ~done
    /\ generation < MaxUpdates
    /\ done' = TRUE
    /\ stopState' = "updating"
    /\ UNCHANGED <<ctxCancelled, dispRunning, dispVars, worker, closed, lastClosed,
                   highWatermark, bufferedFetchedRecords, bufferedFetchedBytes,
                   pollVars, logStart, histVars, cas, fnVars, runLoop, unconsumed,
                   rEstimatedBytesPerRecord, generation>>

\* mutant: the new generation is started without waiting for the old one
UpdateStartNoWait ==
    /\ \/ stopState = "updating"
       \/ stopState = "stopped" /\ pollPc = "idle" /\ generation < MaxUpdates
    /\ bufferedFetchedRecords' = 0
    /\ bufferedFetchedBytes' = 0
    /\ unconsumed' = [records |-> 0, bytes |-> 0]
    /\ done' = FALSE
    /\ ctxCancelled' \in {FALSE, ctxCancelled}
    /\ generation' = generation + 1
    /\ stopState' = "running"
    /\ dispRunning' = TRUE
    /\ nextFetch' = fetchWantFrom(lastReturnedRecord + 1, targetBytesPerFetcher,
                                  initialBytesPerRecord)
    /\ inflight' = <<>>
    /\ bufferedResult' = EmptyResult
    /\ readyBufferedResults' = FALSE
    /\ dispatchNextWant' = TRUE
    /\ worker' = [i \in Workers |-> IdleWorker]
    /\ highWatermark' = 0
    /\ closed' = {}
    /\ lastClosed' = NoWant
    /\ dispatched' = {}
    /\ lastDispatched' = NoWant
    /\ UNCHANGED <<pollVars, logStart, cas, fnVars, runLoop, rEstimatedBytesPerRecord>>

\* Update: r.Stop() has returned (r.wg.Wait(), the counters stored 0, or at
\* once when the fetcher was stopped before), r.done is made anew and start
\* runs again, from r.lastReturnedRecord+1 and with the ctx given to Update.
\* The channels of the old generation are out of reach by then.
UpdateStart ==
    /\ \/ stopState = "updating"
       \/ stopState = "stopped" /\ pollPc = "idle" /\ generation < MaxUpdates
    /\ ~dispRunning
    /\ \A i \in Workers : worker[i].pc = "exited"
    /\ bufferedFetchedRecords' = 0
    /\ bufferedFetchedBytes' = 0
    /\ unconsumed' = [records |-> 0, bytes |-> 0]
    /\ done' = FALSE
    /\ ctxCancelled' \in {FALSE, ctxCancelled}
    /\ generation' = generation + 1
    /\ stopState' = "running"
    /\ dispRunning' = TRUE
    /\ nextFetch' = fetchWantFrom(lastReturnedRecord + 1, targetBytesPerFetcher,
                                  initialBytesPerRecord)
    /\ inflight' = <<>>
    /\ bufferedResult' = EmptyResult
    /\ readyBufferedResults' = FALSE
    /\ dispatchNextWant' = TRUE
    /\ worker' = [i \in Workers |-> IdleWorker]
    /\ highWatermark' = 0
    /\ closed' = {}
    /\ lastClosed' = NoWant
    /\ dispatched' = {}
    /\ lastDispatched' = NoWant
    /\ UNCHANGED <<pollVars, logStart, cas, fnVars, runLoop, rEstimatedBytesPerRecord>>

(* ------------------------------ environment ---------------------------- *)

\* the ctx given to newConcurrentFetchers is cancelled
CancelCtx ==
    /\ ~ctxCancelled
    /\ ctxCancelled' = TRUE
    /\ UNCHANGED <<done, dispRunning, dispVars, worker, closed, lastClosed, highWatermark,
                   bufferedFetchedRecords, bufferedFetchedBytes, pollVars,
                   stopState, logStart, histVars, cas, fnVars, runLoop, unconsumed, rEstimatedBytesPerRecord, generation>>

\* retention deletes the records below RetentionPoint
Retention ==
    /\ logStart < RetentionPoint
    /\ logStart' = RetentionPoint
    /\ UNCHANGED <<done, ctxCancelled, dispRunning, dispVars, worker, closed, lastClosed,
                   highWatermark, bufferedFetchedRecords, bufferedFetchedBytes,
                   pollVars, stopState, histVars, cas, fnVars, runLoop, unconsumed, rEstimatedBytesPerRecord, generation>>

Next ==
    \/ \E i \in Workers : Dispatch(i)
    \/ \E i \in Workers : Refill(i)
    \/ RefillClosed
    \/ Deliver
    \/ DispatcherReturn
    \/ \E i \in Workers : Attempt(i)
    \/ \E i \in Workers : WorkerSeesDone(i)
    \/ \E i \in Workers : WorkerSeesCtxDone(i)
    \/ \E i \in Workers : WorkerDefault(i)
    \/ \E i \in Workers : WorkerExit(i)
    \/ PollCall
    \/ PollCancel
    \/ PollReturn
    \/ StopClose
    \/ StopReturn
    \/ CancelCtx
    \/ Retention

Spec == Init /\ [][Next]_vars

\* the fetcher with Update calls
NextUpdate ==
    \/ Next
    \/ UpdateStop
    \/ UpdateStart

SpecUpdate == Init /\ [][NextUpdate]_vars


\* the steps by which the goroutines wind down once r.done is closed
StopProgress ==
    \/ DispatcherReturn
    \/ StopReturn
    \/ \E i \in Workers : done /\ Attempt(i)
    \/ \E i \in Workers : WorkerSeesDone(i)
    \/ \E i \in Workers : WorkerExit(i)

\* goroutines that can run are scheduled, outstanding broker requests and
\* backoff waits return, and a select with r.done closed comes to pick that
\* case: while some goroutine can wind down, one eventually does
FairSpec == Spec /\ WF_vars(StopProgress)

(* ------------------- casHWM, one atomic operation a step --------------- *)

\* the high watermarks responses report; a negative one is not passed on
HWMReports == {-1, StaleHWM, LogEndOffset}

otherVars == <<done, ctxCancelled, dispRunning, dispVars, worker, closed, lastClosed,
               bufferedFetchedRecords, bufferedFetchedBytes, pollVars,
               stopState, logStart, histVars, fnVars, unconsumed,
               rEstimatedBytesPerRecord, generation, runLoop>>

\* run: if hwm := f.HighWatermark; hwm >= 0 { casHWM(highWatermark, hwm) }
ReportHWM(i, v) ==
    /\ cas[i].pc = "idle"
    /\ IF v >= 0
       THEN cas' = [cas EXCEPT ![i].pc = "load", ![i].newHWM = v]
       ELSE cas' = cas
    /\ UNCHANGED <<highWatermark, otherVars>>

CasFinished(i) ==
    [cas[i] EXCEPT !.pc = "idle", !.hwm = 0, !.newHWM = 0,
                   !.maxDone = Max(cas[i].maxDone, cas[i].newHWM)]

\* casHWM: hwm := highWwatermark.Load() and the loop condition
CasLoad(i) ==
    /\ cas[i].pc = "load"
    /\ IF casLoop(highWatermark, cas[i].newHWM)
       THEN cas' = [cas EXCEPT ![i].pc = "swap", ![i].hwm = highWatermark]
       ELSE cas' = [cas EXCEPT ![i] = CasFinished(i)]
    /\ UNCHANGED <<highWatermark, otherVars>>

\* casHWM: highWwatermark.CompareAndSwap(hwm, newHWM)
CasSwap(i) ==
    /\ cas[i].pc = "swap"
    /\ IF highWatermark = cas[i].hwm
       THEN /\ highWatermark' = cas[i].newHWM
            /\ cas' = [cas EXCEPT ![i] = CasFinished(i)]
       ELSE /\ highWatermark' = highWatermark
            /\ cas' = [cas EXCEPT ![i].pc = "load", ![i].hwm = 0]
    /\ UNCHANGED otherVars

NextHWM ==
    \/ \E i \in Workers, v \in HWMReports : ReportHWM(i, v)
    \/ \E i \in Workers : CasLoad(i)
    \/ \E i \in Workers : CasSwap(i)

SpecHWM == Init /\ [][NextHWM]_vars

(* ------------------ the functions of fetchWant and fetchResult --------- *)

\* wants at the reduced width: estimates and offsets at the edges of int32
\* and int64 and in between
NarrowEstimates ==
    {NarrowMinInt64, 0, 1, 3, NarrowMaxInt32, NarrowMaxInt32 + 1,
     NarrowMaxInt64 \div 2 + 1, NarrowMaxInt64}

NarrowOffsets == {0, 1, 2, 10, NarrowMaxInt32, NarrowMaxInt64}

MaxBytesCalls ==
    {[NoCall EXCEPT !.op = "MaxBytes", !.arch = a,
                    !.w = [NoWant EXCEPT !.startOffset = s, !.endOffset = e,
                                         !.estimatedBytesPerRecord = b]] :
        a \in Archs, s \in NarrowOffsets, e \in NarrowOffsets,
        b \in NarrowEstimates}

\* a want of start and what a result reported: bytes over n >= 1 records
UpdateBytesPerRecordCalls ==
    {[NoCall EXCEPT !.op = "UpdateBytesPerRecord", !.bytes = b, !.n = k,
                    !.w = fetchWantFrom(StartOffset, targetBytesPerFetcher, e)] :
        e \in {1, 10, 9999, initialBytesPerRecord},
        b \in {0, 19, 2000, 12345, RecordBytes, 3 * RecordBytes},
        k \in {1, 2, 3, 100}}

\* results as parseFetchResponse builds them, the older one as run keeps it
MergeCalls ==
    {[NoCall EXCEPT !.op = "Merge",
                    !.fr = [Records |-> SubSeq(Log, i, j),
                            fetchedBytes |-> (j + 1 - i) * RecordBytes,
                            Err |-> err, HighWatermark |-> h,
                            LogStartOffset |-> l, ctx |-> StartOffset],
                    !.older = [EmptyResult EXCEPT
                                  !.Records = SubSeq(Log, o, i - 1),
                                  !.fetchedBytes = (i - o) * RecordBytes,
                                  !.HighWatermark = StaleHWM,
                                  !.LogStartOffset = 0,
                                  !.ctx = c]] :
        i \in 1..Len(Log), j \in 0..Len(Log), o \in 1..Len(Log),
        err \in {"none", "i/o timeout"}, h \in {-1, LogEndOffset},
        l \in {0, RetentionPoint}, c \in {NoChan, StartOffset}}

\* the offsets of the wants and partition starts given to the classifier
HandlerOffsets == {0, 10, 20, 30}

\* every class of error, with wants before, across and after the partition
\* start the offset reader has cached, or with the reader failing
HandlerCalls ==
    {[NoCall EXCEPT !.op = "handleKafkaFetchErr", !.err = e, !.cached = c,
                    !.w = [fetchWantFrom(s, targetBytesPerFetcher,
                                         initialBytesPerRecord)
                              EXCEPT !.endOffset = s + 10]] :
        e \in KafkaFetchErrs, s \in HandlerOffsets,
        c \in {[ok |-> FALSE, offset |-> 0]}
                \cup {[ok |-> TRUE, offset |-> p] : p \in HandlerOffsets}}

InitFn ==
    /\ InitFetcher
    /\ fnIn \in MaxBytesCalls \cup UpdateBytesPerRecordCalls \cup MergeCalls
                 \cup HandlerCalls
    /\ fnOut = NoReturn

CallMaxBytes ==
    /\ fnIn.op = "MaxBytes" /\ ~fnOut.done
    /\ fnOut' = [NoReturn EXCEPT
                    !.done = TRUE,
                    !.expected = expectedBytesNarrow(fnIn.w, fnIn.arch),
                    !.maxBytes = MaxBytesNarrow(fnIn.w, fnIn.arch)]
    /\ UNCHANGED <<programVars, fnIn>>

CallUpdateBytesPerRecord ==
    /\ fnIn.op = "UpdateBytesPerRecord" /\ ~fnOut.done
    /\ fnOut' = [NoReturn EXCEPT
                    !.done = TRUE,
                    !.w = UpdateBytesPerRecord(fnIn.w, fnIn.bytes, fnIn.n)]
    /\ UNCHANGED <<programVars, fnIn>>

CallMerge ==
    /\ fnIn.op = "Merge" /\ ~fnOut.done
    /\ fnOut' = [NoReturn EXCEPT !.done = TRUE,
                                 !.fr = Merge(fnIn.fr, fnIn.older)]
    /\ UNCHANGED <<programVars, fnIn>>

CallHandleKafkaFetchErr ==
    /\ fnIn.op = "handleKafkaFetchErr" /\ ~fnOut.done
    /\ fnOut' = [NoReturn EXCEPT
                    !.done = TRUE,
                    !.w = handleKafkaFetchErr(fnIn.err, fnIn.w, fnIn.cached),
                    !.calls = handleKafkaFetchErrCalls(fnIn.err)]
    /\ UNCHANGED <<programVars, fnIn>>

NextFn ==
    \/ CallMaxBytes
    \/ CallUpdateBytesPerRecord
    \/ CallMerge
    \/ CallHandleKafkaFetchErr

SpecFn == InitFn /\ [][NextFn]_vars

(* --------------- run: one worker, its errBackoff, every error ---------- *)

\* the offsets of the wants the dispatcher hands to the worker: two within
\* the log and one beyond its end
RunWantOffsets == {0, 110, 330}

\* the errors client.PartitionLeader returns: load errors of the partition
LookupErrors == {"LeaderNotAvailable", "UnknownTopicOrPartition", "unclassified"}

\* the errors req.RequestWith returns, a cancelled context apart
TransportErrors ==
    ImmediateRetryErrors \cup {"ErrFirstReadEOF", "i/o timeout", "unclassified"}

\* error codes of a partition in a fetch response, OffsetOutOfRange apart:
\* one the classifier refreshes the metadata for and one it only waits for
PartitionErrors == {"NotLeaderForPartition", "KafkaStorageError"}

\* fetchSingle with every way it ends: the leader lookup fails, the leader is
\* unknown, the request is cancelled or fails, or a response is parsed
fetchSingleOutcomes(fw) ==
    {[kind |-> "lookup", fr |-> newEmptyFetchResult(fw.result, err)] :
        err \in LookupErrors}
    \cup {[kind |-> "unknownLeader",
           fr |-> newEmptyFetchResult(fw.result, "errUnknownPartitionLeader")]}
    \cup (IF ctxCancelled
          THEN {[kind |-> "cancelled",
                 fr |-> newEmptyFetchResult(fw.result, "none")]}
          ELSE {})
    \cup {[kind |-> "request", fr |-> newEmptyFetchResult(fw.result, err)] :
            err \in TransportErrors}
    \cup {[kind |-> "response",
           fr |-> [newEmptyFetchResult(fw.result, err)
                      EXCEPT !.HighWatermark = -1, !.LogStartOffset = -1]] :
            err \in PartitionErrors}
    \cup {[kind |-> "response", fr |-> fr] : fr \in parseFetchResponse(fw)}

\* mutant: the backoff goes on after the context was cancelled
OngoingAlways == TRUE

\* errBackoff.Ongoing(): MaxRetries is 0, so only the context ends it
Ongoing == ~ctxCancelled

\* errBackoff after the calls of handleKafkaFetchErr: each Wait doubles the
\* delay up to MaxBackoff
BackoffWait(delay, calls) ==
    IF \E k \in 1..Len(calls) : calls[k] = "Wait"
    THEN Min(2 * delay, MaxBackoff)
    ELSE delay

\* mutant: Reset leaves the delay as it is
BackoffResetKeeps(delay) == delay

\* errBackoff.Reset()
BackoffReset(delay) == MinBackoff

\* run: close(w.result), and on to the next want or out of run
RunClose(pc, last) ==
    runLoop' = [runLoop EXCEPT !.pc = pc, !.w = NoWant,
                               !.previousResult = EmptyResult,
                               !.f = EmptyResult, !.last = last,
                               !.closedWant = runLoop.w]

\* the end of an iteration of the attempt loop: its condition, and
\* close(w.result) when it fails
RunContinue(w, prev, delay, last, cancelled, sent) ==
    IF Ongoing /\ w.endOffset > w.startOffset
    THEN runLoop' = [runLoop EXCEPT !.pc = "fetch", !.w = w,
                                    !.previousResult = prev,
                                    !.f = EmptyResult, !.nextDelay = delay,
                                    !.last = last, !.cancelled = cancelled,
                                    !.sent = sent]
    ELSE runLoop' = [runLoop EXCEPT !.pc = "range", !.w = NoWant,
                                    !.previousResult = EmptyResult,
                                    !.f = EmptyResult, !.nextDelay = delay,
                                    !.last = last, !.cancelled = cancelled,
                                    !.sent = sent, !.closedWant = w]

runEnv == <<done, ctxCancelled, dispRunning, dispVars, worker, closed,
            lastClosed, bufferedFetchedBytes, pollVars, stopState, logStart,
            histVars, cas, fnVars, unconsumed, rEstimatedBytesPerRecord,
            generation>>

\* run: w := <-wants, a want the dispatcher sends, later ones at higher
\* offsets
RunReceive(offset) ==
    /\ runLoop.pc = "range"
    /\ dispRunning
    /\ offset > runLoop.taken
    /\ LET w == fetchWantFrom(offset, targetBytesPerFetcher,
                              initialBytesPerRecord)
       IN  IF Ongoing /\ w.endOffset > w.startOffset
           THEN runLoop' = [runLoop EXCEPT
                               !.pc = "fetch", !.w = w, !.taken = offset,
                               !.last = NoAttempt, !.cancelled = FALSE,
                               !.sent = 0]
           ELSE runLoop' = [runLoop EXCEPT
                               !.taken = offset, !.last = NoAttempt,
                               !.cancelled = FALSE, !.sent = 0,
                               !.closedWant = w]
    /\ UNCHANGED <<runEnv, highWatermark, bufferedFetchedRecords>>

\* run: one attempt, from fetchSingle to the select that publishes the result
RunAttempt ==
    /\ runLoop.pc = "fetch"
    /\ \E out \in fetchSingleOutcomes(runLoop.w) :
       \E cached \in IF out.fr.Err = "OffsetOutOfRange" THEN CachedOffset
                      ELSE {NoAttempt.cached} :
        LET f       == Merge(out.fr, runLoop.previousResult)
            handled == f.Err # "none"
            w1      == IF handled
                       THEN handleKafkaFetchErr(f.Err, runLoop.w, cached)
                       ELSE runLoop.w
            calls   == IF handled THEN handleKafkaFetchErrCalls(f.Err)
                       ELSE <<>>
            delay   == BackoffWait(runLoop.nextDelay, calls)
            last    == [kind |-> out.kind, err |-> f.Err,
                        records |-> Len(out.fr.Records),
                        handled |-> handled, fwIn |-> runLoop.w,
                        cached |-> cached,
                        fwOut |-> w1, calls |-> calls,
                        delayBefore |-> runLoop.nextDelay,
                        reset |-> Len(f.Records) # 0]
            cancelled == runLoop.cancelled \/ out.kind = "cancelled"
        IN  /\ bufferedFetchedRecords'
                  = bufferedFetchedRecords + Len(out.fr.Records)
            /\ highWatermark' = IF f.HighWatermark >= 0
                                THEN casHWM(highWatermark, f.HighWatermark)
                                ELSE highWatermark
            /\ IF Len(f.Records) = 0
               THEN IF done
                    THEN runLoop' = [runLoop EXCEPT
                                        !.pc = "exited", !.w = NoWant,
                                        !.previousResult = EmptyResult,
                                        !.nextDelay = delay, !.last = last,
                                        !.cancelled = cancelled,
                                        !.closedWant = w1]
                    ELSE RunContinue(w1, AsPrevious(f), delay, last,
                                     cancelled, runLoop.sent)
               ELSE runLoop' = [runLoop EXCEPT
                        !.pc = "select",
                        !.w = UpdateBytesPerRecord(NextStartOffset(w1, f),
                                                   f.fetchedBytes,
                                                   Len(f.Records)),
                        !.previousResult = AsPrevious(f),
                        !.f = Sent(f),
                        !.nextDelay = BackoffReset(delay),
                        !.last = last,
                        !.cancelled = cancelled]
    /\ UNCHANGED runEnv

\* run: case <-r.done of either select: close(w.result); return
RunSeesDone ==
    /\ runLoop.pc \in {"select", "block"}
    /\ done
    /\ RunClose("exited", runLoop.last)
    /\ UNCHANGED <<runEnv, highWatermark, bufferedFetchedRecords>>

\* run: case w.result <- f of either select, the dispatcher receiving
RunSend ==
    /\ runLoop.pc \in {"select", "block"}
    /\ dispRunning /\ ~done /\ ~ctxCancelled
    /\ RunContinue(runLoop.w, EmptyResult, runLoop.nextDelay, runLoop.last,
                   runLoop.cancelled, runLoop.sent + 1)
    /\ UNCHANGED <<runEnv, highWatermark, bufferedFetchedRecords>>

\* run: case <-ctx.Done() of either select
RunSeesCtxDone ==
    /\ runLoop.pc \in {"select", "block"}
    /\ ctxCancelled
    /\ RunContinue(runLoop.w, runLoop.previousResult, runLoop.nextDelay,
                   runLoop.last, runLoop.cancelled, runLoop.sent)
    /\ UNCHANGED <<runEnv, highWatermark, bufferedFetchedRecords>>

\* run: the default case of the first select
RunDefault ==
    /\ runLoop.pc = "select"
    /\ ~done /\ ~ctxCancelled
    /\ IF runLoop.w.startOffset >= runLoop.w.endOffset
       THEN runLoop' = [runLoop EXCEPT !.pc = "block"]
       ELSE RunContinue(runLoop.w, runLoop.previousResult, runLoop.nextDelay,
                        runLoop.last, runLoop.cancelled, runLoop.sent)
    /\ UNCHANGED <<runEnv, highWatermark, bufferedFetchedRecords>>

\* run: `for w := range wants` ends once start has closed wants
RunExit ==
    /\ runLoop.pc = "range"
    /\ ~dispRunning
    /\ runLoop' = [runLoop EXCEPT !.pc = "exited"]
    /\ UNCHANGED <<runEnv, highWatermark, bufferedFetchedRecords>>

NextRun ==
    \/ \E offset \in RunWantOffsets : RunReceive(offset)
    \/ RunAttempt
    \/ RunSeesDone
    \/ RunSend
    \/ RunSeesCtxDone
    \/ RunDefault
    \/ RunExit
    \/ DispatcherReturn
    \/ StopClose
    \/ CancelCtx
    \/ Retention

SpecRun == Init /\ [][NextRun]_vars

(* --------------- Stop called while PollFetches is under way ------------ *)

\* Stop: close(r.done), called from another goroutine than the one that is
\* inside PollFetches; nothing in Stop or PollFetches makes one wait for the
\* other
StopCloseDuringPoll ==
    /\ stopState = "running"
    /\ pollPc # "idle"
    /\ ~done
    /\ done' = TRUE
    /\ stopState' = "closing"
    /\ UNCHANGED <<ctxCancelled, dispRunning, dispVars, worker, closed, lastClosed,
                   highWatermark, bufferedFetchedRecords, bufferedFetchedBytes,
                   pollVars, logStart, histVars, cas, fnVars, runLoop, unconsumed, rEstimatedBytesPerRecord, generation>>

NextConcurrentStop ==
    \/ Next
    \/ StopCloseDuringPoll

SpecConcurrentStop == Init /\ [][NextConcurrentStop]_vars

(* ------------- a fetcher that is left running and is polled ------------ *)

\* wants are dispatched for offsets up to this one, the last of the log
ProgressWantOffset == 220

\* the offsets the fetcher is started at: the first record of the log and a
\* later one, which is above the high watermark start begins with
ProgressStartOffsets == {0, 60}

\* the fetcher after newConcurrentFetchers(startOffset) and the first pass
\* of start through the head of its loop
InitProgress ==
    /\ \E s \in ProgressStartOffsets :
          /\ nextFetch = fetchWantFrom(s, targetBytesPerFetcher,
                                       initialBytesPerRecord)
          /\ lastReturnedRecord = s - 1
    /\ dispatchNextWant = dispatchPermitted(<<>>, 0, nextFetch, 0)
    /\ done = FALSE
    /\ ctxCancelled = FALSE
    /\ dispRunning = TRUE
    /\ inflight = <<>>
    /\ bufferedResult = EmptyResult
    /\ readyBufferedResults = FALSE
    /\ worker = [i \in Workers |-> IdleWorker]
    /\ closed = {}
    /\ lastClosed = NoWant
    /\ highWatermark = 0
    /\ bufferedFetchedRecords = 0
    /\ bufferedFetchedBytes = 0
    /\ pollPc = "idle"
    /\ polled = EmptyResult
    /\ stopState = "running"
    /\ logStart = 0
    /\ returned = <<>>
    /\ pollReturn = [kind |-> "none", discarded |-> 0, n |-> 0]
    /\ dispatched = {}
    /\ lastDispatched = NoWant
    /\ cas = [i \in Workers |-> IdleCas]
    /\ unconsumed = [records |-> 0, bytes |-> 0]
    /\ rEstimatedBytesPerRecord = 0
    /\ generation = 0
    /\ runLoop = IdleRun
    /\ fnIn = NoCall
    /\ fnOut = NoReturn

\* run: an attempt the broker answers with records whenever it holds any
\* from the requested offset
AttemptAnswered(i) ==
    /\ Attempt(i)
    /\ Available(worker[i].w.startOffset) # <<>> =>
           bufferedFetchedRecords' > bufferedFetchedRecords

\* no Stop, no cancellation, no retention; the consumer calls PollFetches
\* again and again and waits for each call to return
NextProgress ==
    \/ \E i \in Workers : DispatchUpTo(i, ProgressWantOffset)
    \/ \E i \in Workers : Refill(i)
    \/ RefillClosed
    \/ Deliver
    \/ \E i \in Workers : AttemptAnswered(i)
    \/ \E i \in Workers : WorkerDefault(i)
    \/ PollCall
    \/ PollReturn

\* every goroutine keeps being scheduled.  A worker with an unsatisfied want
\* offers its result without waiting (the select at 612 has a default case),
\* so the receive of start is possible off and on; start waits in its select
\* whenever it has nothing to do, so a worker that offers again and again
\* comes to find it there
SpecProgress ==
    /\ InitProgress
    /\ [][NextProgress]_vars
    /\ \A i \in Workers : WF_vars(DispatchUpTo(i, ProgressWantOffset))
    /\ \A i \in Workers : SF_vars(Refill(i))
    /\ WF_vars(RefillClosed)
    /\ WF_vars(Deliver)
    /\ \A i \in Workers : WF_vars(AttemptAnswered(i))
    /\ \A i \in Workers : WF_vars(WorkerDefault(i))
    /\ WF_vars(PollCall)
    /\ WF_vars(PollReturn)

(* -------------------------------- claims ------------------------------- *)

LogOffsets == {Log[j] : j \in 1..Len(Log)}

\* C1: the offsets returned by PollFetches, over all calls, are strictly
\* increasing, so no record is returned twice
C1_StrictlyIncreasing ==
    \A j, k \in 1..Len(returned) : j < k => returned[j] < returned[k]

\* a call that discarded records fetched twice, after earlier records
C1_Witness ==
    /\ pollReturn.kind = "fetches"
    /\ pollReturn.discarded > 0
    /\ Len(returned) >= 3

\* C2: once a record with offset k was returned, every record the broker
\* holds from the start offset up to k was returned as well
C2_NoSkip ==
    \A o \in LogOffsets :
        (/\ o >= logStart
         /\ o >= StartOffset
         /\ \E k \in 1..Len(returned) : returned[k] > o)
            => \E k \in 1..Len(returned) : returned[k] = o

\* the whole log was returned
C2_Witness == returned = Log /\ logStart = 0

\* C3: a staged result was received from the head want of the inflight
\* queue, and no want of the queue is older than the head
C3_HeadOnly ==
    readyBufferedResults =>
        /\ Len(inflight) > 0
        /\ bufferedResult.ctx = inflight[1].result
        /\ \A j \in 2..Len(inflight) :
               inflight[j].startOffset > inflight[1].startOffset

\* the result of the head is staged while the worker of a younger want has
\* finished and waits for the dispatcher
C3_Witness ==
    /\ readyBufferedResults
    /\ Len(inflight) >= 2
    /\ \E i \in Workers :
        /\ worker[i].pc = "block"
        /\ worker[i].w.result = inflight[2].result

\* C4: the inflight queue is contiguous and in offset order, the next want
\* starts where the last dispatched one ended, and the queue changes only by
\* an append at the tail or a removal at the head
C4_QueueOrder ==
    /\ [](/\ \A j \in 1..(Len(inflight) - 1) :
                 inflight[j + 1].startOffset = inflight[j].endOffset
          /\ lastDispatched # NoWant =>
                 nextFetch.startOffset = lastDispatched.endOffset)
    /\ [][inflight' # inflight =>
            \/ /\ Len(inflight') = Len(inflight) + 1
               /\ SubSeq(inflight', 1, Len(inflight)) = inflight
               /\ lastDispatched # NoWant =>
                      inflight'[Len(inflight')].startOffset = lastDispatched.endOffset
            \/ /\ Len(inflight) > 0
               /\ inflight' = Tail(inflight)]_vars

\* two wants are queued and the head's channel is closed, about to be removed
C4_Witness ==
    /\ Len(inflight) = 2
    /\ inflight[1].result \in closed
    /\ ~readyBufferedResults

\* C5: a want is dispatched only if no want is inflight, or the inflight
\* bytes plus its MaxBytes stay within the limit and it starts at or below the
\* high watermark
C5_DispatchGuard ==
    [][Len(inflight') > Len(inflight) =>
         \/ Len(inflight) = 0
         \/ /\ bufferedFetchedBytes + MaxBytes(nextFetch) <= MaxBufferedBytesLimit
            /\ nextFetch.startOffset <= highWatermark]_vars

\* a want was dispatched while another one was inflight
C5_Witness ==
    /\ Len(inflight) = 2
    /\ lastDispatched = inflight[2]

\* C6: the high watermark never decreases, is at least every value a finished
\* casHWM call reported, and equals the largest of them (or 0) when no call
\* is running
C6_HWMMonotonic ==
    /\ [](/\ \A i \in Workers : highWatermark >= cas[i].maxDone
          /\ (\A i \in Workers : cas[i].pc = "idle") =>
                 \E i \in Workers : highWatermark = cas[i].maxDone)
    /\ [][highWatermark' >= highWatermark]_vars

\* a smaller value was reported after a larger one and the calls are over
C6_Witness ==
    /\ \A i \in Workers : cas[i].pc = "idle"
    /\ \E i, j \in Workers :
        /\ cas[i].maxDone = LogEndOffset
        /\ cas[j].maxDone = StaleHWM
    /\ highWatermark = LogEndOffset

\* C7: once Stop has closed r.done, the dispatcher and every worker exit and
\* Stop returns
C7_StopReturns == (stopState = "closing") ~> (stopState = "stopped")

\* Stop returned although a result was staged and two wants were inflight
C7_Witness ==
    /\ stopState = "stopped"
    /\ readyBufferedResults
    /\ Len(inflight) = 2

\* C8: when Stop has returned both buffered counters are 0
C8_CountersReset ==
    stopState = "stopped" =>
        bufferedFetchedRecords = 0 /\ bufferedFetchedBytes = 0

\* Stop returned with a staged result that was never delivered
C8_Witness ==
    /\ stopState = "stopped"
    /\ bufferedResult.Records # <<>>
    /\ Len(returned) < Len(bufferedResult.Records)

\* C9: when Stop has returned the result channel of every dispatched want is
\* closed
C9_AllClosed == stopState = "stopped" => dispatched \subseteq closed

\* Stop returned after two wants were dispatched
C9_Witness == stopState = "stopped" /\ Cardinality(dispatched) >= 2

\* C10: a PollFetches call that returns because its context was cancelled
\* changes neither lastReturnedRecord, the buffered counters, the staged
\* result nor what was returned so far
C10_CancelFrame ==
    [][(pollPc = "polling" /\ pollPc' = "idle") =>
         UNCHANGED <<lastReturnedRecord, bufferedFetchedRecords,
                     bufferedFetchedBytes, bufferedResult,
                     readyBufferedResults, returned>>]_vars

\* the call returned empty and the staged result is still there
C10_Witness ==
    /\ pollPc = "idle"
    /\ pollReturn.kind = "empty"
    /\ readyBufferedResults
    /\ bufferedResult.Records # <<>>

\* C11: PollFetches returns exactly the records of the result it received
\* whose offset is above the last offset returned before, in their order; it
\* sets lastReturnedRecord to the last of them, and leaves it unchanged when
\* none is left
C11_DropsReturned ==
    [][(pollPc = "got" /\ pollPc' = "idle") =>
         LET rest == SelectSeq(polled.Records,
                               LAMBDA o : o > lastReturnedRecord)
         IN  /\ returned' = returned \o rest
             /\ lastReturnedRecord' = IF rest = <<>> THEN lastReturnedRecord
                                      ELSE rest[Len(rest)]]_vars

\* a call dropped some records of its result and returned the others
C11_Witness ==
    /\ pollPc = "idle"
    /\ pollReturn.kind = "fetches"
    /\ pollReturn.discarded > 0
    /\ pollReturn.n > 0

\* C12: MaxBytes is between the floor and the largest int32 for every want;
\* when the expected size is negative or above the largest int32 it is the
\* largest int32
C12_MaxBytesRange ==
    (fnIn.op = "MaxBytes" /\ fnOut.done) =>
        /\ fnOut.maxBytes >= NarrowMinFetchBytes
        /\ fnOut.maxBytes <= NarrowMaxInt32
        /\ (fnOut.expected < 0 \/ fnOut.expected > NarrowMaxInt32) =>
                fnOut.maxBytes = NarrowMaxInt32

\* MaxBytes of a want whose start has passed its end and whose product
\* wrapped around
C12_Witness ==
    /\ fnIn.op = "MaxBytes" /\ fnOut.done
    /\ fnIn.w.startOffset > fnIn.w.endOffset
    /\ fnIn.w.estimatedBytesPerRecord
         * (fnIn.w.startOffset - fnIn.w.endOffset) > NarrowMaxInt64
    /\ fnOut.maxBytes = NarrowMaxInt32

C14_MergeOrder ==
    (fnIn.op = "Merge" /\ fnOut.done) =>
        LET old == fnIn.older.Records
            new == fnIn.fr.Records
            out == fnOut.fr.Records
        IN  /\ Len(out) = Len(old) + Len(new)
            /\ \A k \in 1..Len(old) : out[k] = old[k]
            /\ \A k \in 1..Len(new) : out[Len(old) + k] = new[k]
            /\ fnOut.fr.fetchedBytes
                 = fnIn.fr.fetchedBytes + fnIn.older.fetchedBytes
            /\ fnOut.fr.HighWatermark = fnIn.fr.HighWatermark
            /\ fnOut.fr.LogStartOffset = fnIn.fr.LogStartOffset

\* both results held records, and their watermarks and log starts differed
C14_Witness ==
    /\ fnIn.op = "Merge" /\ fnOut.done
    /\ fnIn.older.Records # <<>> /\ fnIn.fr.Records # <<>>
    /\ fnIn.older.HighWatermark # fnIn.fr.HighWatermark
    /\ fnIn.older.LogStartOffset # fnIn.fr.LogStartOffset
    /\ Len(fnOut.fr.Records) > Len(fnIn.fr.Records)

\* C15: while the fetcher runs, BufferedRecords is the number of records the
\* fetch attempts returned less the number of records in the results handed
\* to PollFetches; a call that received a result decreases it by the number
\* of records of that result, whatever it then discards
C15_BufferedRecords ==
    /\ []((stopState = "running" /\ pollPc # "got") =>
              bufferedFetchedRecords = unconsumed.records)
    /\ [][(pollPc = "got" /\ pollPc' = "idle") =>
              bufferedFetchedRecords'
                  = bufferedFetchedRecords - Len(polled.Records)]_vars

\* a call discarded part of its result while other records stayed buffered
C15_Witness ==
    /\ stopState = "running" /\ pollPc = "idle"
    /\ pollReturn.kind = "fetches"
    /\ pollReturn.discarded > 0
    /\ bufferedFetchedRecords > 0

\* C16: while the fetcher runs, BufferedBytes is the number of bytes the
\* fetch attempts returned less the bytes of the results handed to
\* PollFetches
C16_BufferedBytes ==
    (stopState = "running" /\ pollPc # "got") =>
        bufferedFetchedBytes = unconsumed.bytes

\* C17: once the dispatcher has taken in a fetched result, BytesPerRecord is
\* the estimate the dispatcher sizes the next want with
C17_BytesPerRecord ==
    readyBufferedResults => BytesPerRecord = nextFetch.estimatedBytesPerRecord

\* C18: Update restarts the fetcher only once the old dispatcher and all old
\* workers have exited, the first want of the new generation starts at
\* lastReturnedRecord + 1, and what PollFetches returns stays strictly
\* increasing and, while the broker deletes nothing, without a gap
C18_UpdateRestart ==
    /\ [][generation' # generation =>
             /\ ~dispRunning
             /\ \A i \in Workers : worker[i].pc = "exited"
             /\ nextFetch'.startOffset = lastReturnedRecord + 1
             /\ inflight' = <<>>]_vars
    /\ [](\A k \in 1..(Len(returned) - 1) : returned[k] < returned[k + 1])
    /\ [](logStart = 0 => returned = SubSeq(Log, 1, Len(returned)))

\* records were returned before an Update and again by the generation it
\* started
C18_Witness ==
    /\ generation = 1
    /\ logStart = 0
    /\ \E c \in dispatched :
          /\ \A d \in dispatched : c <= d
          /\ c > StartOffset + 1
          /\ c <= lastReturnedRecord

\* C19: a worker leaves a want only by closing its result channel, and a
\* result channel is closed only when the fetcher was stopped, its context
\* cancelled, or the want's startOffset has reached its endOffset, whatever
\* errors the fetch attempts returned
C19_NoFatalError ==
    /\ [][\A i \in Workers :
             (worker[i].pc \in {"fetch", "select", "block"}
                 /\ worker'[i].pc \in {"idle", "exited"}) =>
                     /\ worker[i].w.result \in closed'
                     /\ lastClosed'.result = worker[i].w.result]_vars
    /\ [][(closed' \ closed) # {} =>
             \/ done
             \/ ctxCancelled
             \/ lastClosed'.startOffset >= lastClosed'.endOffset]_vars

\* after an unclassified error the worker still holds the want, with the
\* records fetched before the error, and the want is not complete
C19_Witness ==
    /\ ~done /\ ~ctxCancelled
    /\ \E i \in Workers :
          /\ worker[i].pc = "select"
          /\ worker[i].f.Err = "unclassified"
          /\ worker[i].w.result \notin closed
          /\ worker[i].w.startOffset < worker[i].w.endOffset

\* C20: a fetch attempt updates the want's bytes-per-record estimate exactly
\* when it returned records, so a want is updated once for each attempt that
\* returned records
C20_UpdatePerFetch ==
    \A i \in Workers :
        worker[i].estimateUpdated <=> worker[i].attemptRecords > 0

\* C21: when an attempt is answered OffsetOutOfRange and the want starts
\* below the partition start P the offset reader has cached, the classifier
\* makes no backoff wait and no metadata refresh and leaves endOffset alone;
\* with P at or beyond endOffset it sets startOffset to endOffset and the
\* want is complete: the worker makes no other attempt for it, it closes the
\* channel, at most after publishing what it held; otherwise the classifier
\* sets startOffset to P
C21_BeforeStart ==
    LET a == runLoop.last
    IN  (/\ a.handled
         /\ a.err = "OffsetOutOfRange"
         /\ a.cached.ok
         /\ a.fwIn.startOffset < a.cached.offset) =>
            /\ a.calls = <<>>
            /\ a.fwOut.endOffset = a.fwIn.endOffset
            /\ IF a.cached.offset >= a.fwIn.endOffset
               THEN /\ a.fwOut.startOffset = a.fwOut.endOffset
                    /\ \/ /\ runLoop.pc \in {"range", "exited"}
                          /\ runLoop.closedWant.result = a.fwIn.result
                       \/ /\ runLoop.pc \in {"select", "block"}
                          /\ runLoop.w.startOffset >= runLoop.w.endOffset
               ELSE a.fwOut.startOffset = a.cached.offset

\* C22: while the log starts at offset 0, so that every OffsetOutOfRange
\* answer is for a want at or after the partition start, no result PollFetches
\* receives, and returns the FetchPartition of, carries OffsetOutOfRange
C22_NoErrorSurfaced ==
    (pollPc = "got" /\ logStart = 0) => polled.Err # "OffsetOutOfRange"

\* C23: an attempt whose request ended by the cancellation of the context
\* has an empty result without an error, handleKafkaFetchErr is not called
\* for it, it makes no backoff wait and no metadata refresh, and the worker
\* makes no other attempt for the want
C23_CancelNoRetry ==
    /\ runLoop.last.kind = "cancelled" =>
          /\ runLoop.last.err = "none"
          /\ runLoop.last.records = 0
          /\ ~runLoop.last.handled
          /\ runLoop.last.calls = <<>>
          /\ runLoop.nextDelay \in {runLoop.last.delayBefore, MinBackoff}
    /\ runLoop.cancelled => runLoop.pc # "fetch"

\* the cancelled attempt was made for a want that held unsent records, and
\* the want's channel was closed with the want incomplete
C23_Witness ==
    /\ runLoop.last.kind = "cancelled"
    /\ runLoop.last.reset
    /\ runLoop.pc = "range"
    /\ runLoop.closedWant.result = runLoop.last.fwIn.result
    /\ runLoop.closedWant.startOffset < runLoop.closedWant.endOffset

\* C24: for each of the stale leader, replica and epoch errors, for an
\* unknown partition leader and for an I/O timeout the classifier calls
\* ForceMetadataRefresh once, then Wait once, and returns the want unchanged
C24_RefreshThenWait ==
    (/\ fnIn.op = "handleKafkaFetchErr" /\ fnOut.done
     /\ fnIn.err \in {"NotLeaderForPartition", "ReplicaNotAvailable",
                      "UnknownLeaderEpoch", "FencedLeaderEpoch",
                      "LeaderNotAvailable", "BrokerNotAvailable",
                      "errUnknownPartitionLeader", "i/o timeout"}) =>
        /\ fnOut.calls = <<"ForceMetadataRefresh", "Wait">>
        /\ fnOut.w = fnIn.w

\* the classifier was called with an I/O timeout for a want that lies below
\* the cached partition start
C24_Witness ==
    /\ fnIn.op = "handleKafkaFetchErr" /\ fnOut.done
    /\ fnIn.err = "i/o timeout"
    /\ fnIn.cached.ok /\ fnIn.w.endOffset <= fnIn.cached.offset
    /\ Len(fnOut.calls) = 2

\* C25 as stated: for a closed network connection, an unknown broker, a
\* chosen broker that died and a first-read end-of-stream the classifier
\* makes no call at all and returns the want unchanged
C25_ImmediateRetry ==
    (/\ fnIn.op = "handleKafkaFetchErr" /\ fnOut.done
     /\ fnIn.err \in {"use of closed network connection", "unknownBroker",
                      "chosenBrokerDied", "ErrFirstReadEOF"}) =>
        /\ fnOut.calls = <<>>
        /\ fnOut.w = fnIn.w

\* C25, amended: for a closed network connection, an unknown broker and a
\* chosen broker that died the classifier makes no call at all; for a
\* first-read end-of-stream it calls Wait once and makes no metadata refresh;
\* in each case it returns the want unchanged
C25_ImmediateRetryAmended ==
    (fnIn.op = "handleKafkaFetchErr" /\ fnOut.done) =>
        /\ fnIn.err \in {"use of closed network connection", "unknownBroker",
                         "chosenBrokerDied"} =>
              fnOut.calls = <<>> /\ fnOut.w = fnIn.w
        /\ fnIn.err = "ErrFirstReadEOF" =>
              fnOut.calls = <<"Wait">> /\ fnOut.w = fnIn.w

\* the classifier was called with a closed network connection and made no
\* call
C25_Witness ==
    /\ fnIn.op = "handleKafkaFetchErr" /\ fnOut.done
    /\ fnIn.err = "use of closed network connection"
    /\ fnOut.calls = <<>>
    /\ fnOut.w = fnIn.w

C27_BackoffReset ==
    runLoop.last.records > 0 =>
        /\ runLoop.last.reset
        /\ runLoop.nextDelay = MinBackoff

\* the attempt returned a record after earlier attempts had raised the
\* delay, and the worker is about to make the next attempt
C27_Witness ==
    /\ runLoop.last.records > 0
    /\ runLoop.last.delayBefore > MinBackoff
    /\ runLoop.nextDelay = MinBackoff
    /\ runLoop.pc = "fetch"

\* C28 as stated: the dispatcher's next want, every want of the inflight
\* queue and every want a worker is processing has startOffset <= endOffset
C28_StartBeforeEnd ==
    /\ nextFetch.startOffset <= nextFetch.endOffset
    /\ \A j \in 1..Len(inflight) :
           inflight[j].startOffset <= inflight[j].endOffset
    /\ \A i \in Workers :
           worker[i].pc \in {"fetch", "select", "block"} =>
               worker[i].w.startOffset <= worker[i].w.endOffset

\* C28, amended: the dispatcher's next want and every want of the inflight
\* queue has startOffset < endOffset, and so has the want of a worker that
\* is about to fetch; the want of a worker that publishes a result starts
\* one past the last record of that result, which is beyond endOffset when
\* the response reached past the end of the want
C28_StartBeforeEndAmended ==
    /\ nextFetch.startOffset < nextFetch.endOffset
    /\ \A j \in 1..Len(inflight) :
           inflight[j].startOffset < inflight[j].endOffset
    /\ \A i \in Workers :
           /\ worker[i].pc = "fetch" =>
                 worker[i].w.startOffset < worker[i].w.endOffset
           /\ worker[i].pc \in {"select", "block"} =>
                 /\ worker[i].f.Records # <<>>
                 /\ worker[i].w.startOffset = Last(worker[i].f.Records) + 1

\* a worker waits to publish a result whose last record lies beyond the end
\* of its want
C28_Witness ==
    \E i \in Workers :
        /\ worker[i].pc = "block"
        /\ worker[i].w.startOffset > worker[i].w.endOffset
        /\ Last(worker[i].f.Records) > worker[i].w.endOffset

\* a worker that holds a want
Holding(i) == worker[i].pc \in {"fetch", "select", "block"}

\* C29: the channel of a want a worker holds is open and was dispatched, and
\* no other worker holds the want; a worker lets go of a want only by
\* closing its channel, which was open until then; only channels of
\* dispatched wants are closed; and a result the dispatcher receives comes
\* from a channel that is open
C29_RetiredOnce ==
    /\ [](\A i \in Workers :
             Holding(i) =>
                 /\ worker[i].w.result \notin closed
                 /\ worker[i].w.result \in dispatched
                 /\ \A j \in Workers \ {i} :
                        Holding(j) => worker[j].w.result # worker[i].w.result)
    /\ [](closed \subseteq dispatched)
    /\ [][\A i \in Workers :
             (Holding(i) /\ worker'[i].pc \in {"idle", "exited"}) =>
                 /\ worker[i].w.result \notin closed
                 /\ closed' = closed \cup {worker[i].w.result}]_vars
    /\ [][(~readyBufferedResults /\ readyBufferedResults') =>
             bufferedResult'.ctx \notin closed]_vars

\* the fetcher was stopped: one worker closed the channel of a want that was
\* satisfied, another that of a want that was not, and both have left
C29_Witness ==
    /\ done
    /\ Cardinality(closed) >= 2
    /\ lastClosed.startOffset < lastClosed.endOffset
    /\ \A i \in Workers : worker[i].pc = "exited"

\* C30: the delivery channel is set exactly when the staged result has
\* records; while it is set the dispatcher has no channel to receive a result
\* from, and a step neither takes a want off the front of inflight nor changes
\* the staged result, unless it hands the staged result to PollFetches and
\* leaves none
C30_OneStagedResult ==
    /\ [](readyBufferedResults <=> bufferedResult.Records # <<>>)
    /\ [](readyBufferedResults => refillBufferedResult = NoChan)
    /\ [][readyBufferedResults =>
             /\ Len(inflight') >= Len(inflight)
             /\ SubSeq(inflight', 1, Len(inflight)) = inflight
             /\ \/ bufferedResult' = bufferedResult /\ readyBufferedResults'
                \/ /\ bufferedResult' = EmptyResult
                   /\ ~readyBufferedResults'
                   /\ polled' = bufferedResult]_vars

\* a result is staged, the worker of the head want waits to send the next
\* one, and a want behind the head is already closed
C30_Witness ==
    /\ readyBufferedResults
    /\ Len(inflight) >= 2
    /\ \E i \in Workers :
          /\ worker[i].pc \in {"select", "block"}
          /\ worker[i].w.result = Head(inflight).result
    /\ inflight[2].result \in closed

\* C31: a worker waits in the blocking send only with a want that is
\* satisfied, and leaves it only when the dispatcher receives the result, the
\* fetcher is stopped or its ctx is cancelled; a worker at the first select
\* with a want that is not satisfied either hands the result over or goes on
\* to fetch for the same want with the result kept (unless stopped or
\* cancelled), and the result of its next attempt starts with the records kept
C31_BlockOnlySatisfied ==
    /\ [](\A i \in Workers :
             worker[i].pc = "block" =>
                 worker[i].w.startOffset >= worker[i].w.endOffset)
    /\ [][\A i \in Workers :
             (worker[i].pc = "block" /\ worker'[i] # worker[i]) =>
                 \/ /\ ~readyBufferedResults /\ readyBufferedResults'
                    /\ bufferedResult' = worker[i].f
                 \/ done
                 \/ ctxCancelled]_vars
    /\ [][\A i \in Workers :
             (/\ worker[i].pc = "select"
              /\ worker[i].w.startOffset < worker[i].w.endOffset
              /\ worker'[i] # worker[i]) =>
                 \/ /\ worker'[i].pc = "fetch"
                    /\ worker'[i].w = worker[i].w
                    /\ \/ /\ bufferedResult' = worker[i].f
                          /\ worker'[i].previousResult = EmptyResult
                       \/ /\ bufferedResult' = bufferedResult
                          /\ worker'[i].previousResult = worker[i].previousResult
                          /\ worker[i].previousResult.Records = worker[i].f.Records
                 \/ done
                 \/ ctxCancelled]_vars
    /\ [][\A i \in Workers :
             (worker[i].pc = "fetch" /\ worker'[i].pc = "select") =>
                 SubSeq(worker'[i].f.Records, 1,
                        Len(worker[i].previousResult.Records))
                     = worker[i].previousResult.Records]_vars

\* one worker fetches again for a want that is not satisfied, with the result
\* of its last attempt kept, while another waits in the blocking send
C31_Witness ==
    /\ ~done /\ ~ctxCancelled
    /\ \E i, j \in Workers :
          /\ worker[i].pc = "fetch"
          /\ worker[i].w.startOffset < worker[i].w.endOffset
          /\ worker[i].previousResult.Records # <<>>
          /\ worker[j].pc = "block"

\* the largest product of estimate and number of offsets whose expectedBytes,
\* 1.05 times the product, is at most math.MaxInt32
UntrimmedProductLimit ==
    100 * (MaxInt32 \div 105) + (100 * (MaxInt32 % 105) + 99) \div 105

\* C32: the want UpdateBytesPerRecord returns has an expected size for its
\* range, 1.05 * estimate * (endOffset - startOffset), of at most
\* math.MaxInt32
C32_TrimmedAfterUpdate ==
    (fnIn.op = "UpdateBytesPerRecord" /\ fnOut.done) =>
        /\ fnOut.w.endOffset > fnOut.w.startOffset
        /\ fnOut.w.estimatedBytesPerRecord
              <= UntrimmedProductLimit \div (fnOut.w.endOffset - fnOut.w.startOffset)

\* C33: once the fetcher is started with its first want at or below the
\* offset of a record the broker holds, that record is eventually returned by
\* PollFetches (for the records wants are dispatched for)
C33_ForwardProgress ==
    \A o \in LogOffsets :
        (dispatched = {} /\ nextFetch.startOffset <= o /\ o <= ProgressWantOffset)
            ~> (\E j \in 1..Len(returned) : returned[j] = o)

\* the first want was dispatched for offset 60 while the high watermark was
\* still 0, and the records from there on were returned
C33_Witness ==
    /\ dispatched = {60}
    /\ lastDispatched.startOffset > 0
    /\ Len(returned) >= 2
    /\ returned[1] = 60 /\ returned[2] = 110

\* C34: while start runs, inflight.bytes is the sum of the MaxBytes of the
\* wants in inflight as they were dispatched, and it is above
\* maxBufferedBytesLimit only when a single want is inflight
C34_InflightBytesBound ==
    dispRunning =>
        /\ bufferedFetchedBytes = SumMaxBytes(inflight)
        /\ Len(inflight) >= 2 => bufferedFetchedBytes <= MaxBufferedBytesLimit
        /\ bufferedFetchedBytes > MaxBufferedBytesLimit => Len(inflight) = 1

\* two wants are inflight, the next is within the high watermark and a worker
\* is idle, and the want is held back because its bytes would not fit
C34_Witness ==
    /\ dispRunning /\ ~done /\ ~ctxCancelled
    /\ Len(inflight) = 2
    /\ \E i \in Workers : worker[i].pc = "idle"
    /\ nextFetch.startOffset <= highWatermark
    /\ nextFetch.startOffset <= ProgressWantOffset
    /\ wouldExceedInflightBytesLimit(bufferedFetchedBytes, nextFetch)
    /\ ~dispatchNextWant

\* C35: the result a worker offers to the dispatcher holds at least one
\* record, and so does every result the dispatcher receives and updates the
\* estimate of nextFetch with
C35_PublishedHasRecords ==
    /\ [](\A i \in Workers :
             worker[i].pc \in {"select", "block"} =>
                 Len(worker[i].f.Records) >= 1)
    /\ [][(bufferedResult' # bufferedResult /\ readyBufferedResults') =>
             /\ Len(bufferedResult'.Records) >= 1
             /\ nextFetch' = UpdateBytesPerRecord(nextFetch,
                                 bufferedResult'.fetchedBytes,
                                 Len(bufferedResult'.Records))]_vars

\* the dispatcher has received a result whose last attempt failed: it was
\* offered because of the records it holds from the attempt before
C35_Witness ==
    /\ readyBufferedResults
    /\ bufferedResult.Err # "none"
    /\ Len(bufferedResult.Records) >= 1

\* C36: BufferedRecords() and BufferedBytes() are never negative
C36_CountersNonNegative ==
    /\ bufferedFetchedRecords >= 0
    /\ bufferedFetchedBytes >= 0

\* a worker that holds a want
RunHolding(r) == r.pc \in {"fetch", "select", "block"}

\* C37: while the worker holds a want, no step lowers the want's
\* startOffset, and after an attempt in which handleKafkaFetchErr was
\* called the want starts at or after the offset the classifier returned
C37_StartOffsetNeverDecreases ==
    /\ [][(RunHolding(runLoop) /\ RunHolding(runLoop')) =>
             runLoop'.w.startOffset >= runLoop.w.startOffset]_vars
    /\ []((/\ RunHolding(runLoop)
           /\ runLoop.last.handled
           /\ runLoop.last.fwIn.result = runLoop.w.result) =>
              runLoop.w.startOffset >= runLoop.last.fwOut.startOffset)

\* C38: after an attempt whose fetch returned no records, errBackoff.Reset()
\* and w.UpdateBytesPerRecord were not called: the delay of errBackoff is the
\* one the attempt found, doubled if the classifier waited
C38_NoResetWithoutRecords ==
    (runLoop.last.kind # "none" /\ runLoop.last.records = 0) =>
        /\ ~runLoop.last.reset
        /\ runLoop.nextDelay
              = BackoffWait(runLoop.last.delayBefore, runLoop.last.calls)

\* C39: in a fetcher that is left running, started so that one want for
\* each worker lies within the offsets wants are dispatched for and, once the
\* first response is in, within the high watermark, every worker comes to
\* hold a want at the same time
C39_ConcurrencyAttained ==
    (/\ dispatched = {}
     /\ nextFetch.startOffset
           + (Concurrency - 1) * (nextFetch.endOffset - nextFetch.startOffset)
              <= Min(ProgressWantOffset, LogEndOffset))
        ~> (\A i \in Workers : Holding(i))

====
